---- MODULE Spec2Model ----
(***************************************************************************)
(* The official identity and access subsystem of the Fredo ERCA Hub:       *)
(* the request handlers of src/src/index.tsx over the tables of            *)
(* src/migrations/0005_erca_officials_system.sql.                          *)
(*                                                                         *)
(* Two routes are registered twice in index.tsx (login, validate, logout:  *)
(* lines 35-273 and 2106-2225).  Hono dispatches to the handler that was   *)
(* registered first and that handler always answers, so the handlers of    *)
(* lines 35-273 are the ones modelled.                                     *)
(***************************************************************************)
EXTENDS Integers, Sequences, FiniteSets, TLC

(***************************************************************************)
(* Bounds of the model.                                                    *)
(***************************************************************************)
MaxTime == 4
TicksPerDay == 2
MaxAudit == 2
NumRand == 1
MaxRaceTime == 1

VARIABLES
    erca_officials,   \* table erca_officials: a sequence, row id = index
    erca_sessions,    \* table erca_sessions: a set of rows
    erca_audit_logs,  \* table erca_audit_logs: a sequence, row id = index
    now,              \* the clock, Date.now(), in ticks
    inflight          \* the requests suspended at an await, with their locals

vars == <<erca_officials, erca_sessions, erca_audit_logs, now, inflight>>

(***************************************************************************)
(* Time.  Date.toISOString() writes 'YYYY-MM-DDTHH:MM:SS.sssZ', SQLite's   *)
(* datetime('now') and CURRENT_TIMESTAMP write 'YYYY-MM-DD HH:MM:SS'.      *)
(* A timestamp text is modelled by its date, the character that follows    *)
(* the date, and the time of day; texts compare as SQLite compares TEXT,   *)
(* left to right.                                                          *)
(***************************************************************************)
SepT == 84
SepSpace == 32

SessionTtl == TicksPerDay

toISOString(t) == <<t \div TicksPerDay, SepT, t % TicksPerDay>>

datetimeNow == <<now \div TicksPerDay, SepSpace, now % TicksPerDay>>

ParseDate(text) == text[1] * TicksPerDay + text[3]

TextGreater(a, b) ==
    \/ a[1] > b[1]
    \/ a[1] = b[1] /\ a[2] > b[2]
    \/ a[1] = b[1] /\ a[2] = b[2] /\ a[3] > b[3]

(***************************************************************************)
(* Secrets.  SHA-256 is modelled as an injective tagging of the password;  *)
(* the hash literal of the seeded rows is the digest of no password.       *)
(***************************************************************************)
hashPassword(password) == <<"sha256", password>>

SeedHash == <<"literal", "c15cc6e9c3e8c38b3e5e5f8e89d5d5f3">>

DefaultPassword == "1234"

PasswordLength(password) ==
    CASE password = "" -> 0
      [] password = "1234" -> 4
      [] OTHER -> 10

(***************************************************************************)
(* Rows.                                                                   *)
(***************************************************************************)
NULL == "NULL"

NoToken == <<>>

\* the column defaults of CREATE TABLE erca_officials.  Left out: last_login and
\* created_at, which no handler reads back except to order a listing (created_at
\* grows with the row id), and the columns no handler touches.
OfficialDefaults ==
    [ phone |-> NULL,
      office_location |-> NULL,
      is_super_admin |-> 0,
      is_active |-> 1,
      can_view_businesses |-> 1,
      can_view_transactions |-> 1,
      can_view_reports |-> 1,
      can_manage_officials |-> 0,
      can_audit_businesses |-> 0,
      can_issue_penalties |-> 0,
      account_locked |-> 0,
      failed_login_attempts |-> 0,
      updated_at |-> datetimeNow,
      created_by |-> 0 ]

\* INSERT INTO erca_officials (columns) VALUES (...): the other columns default
OfficialRow(columns) == columns @@ OfficialDefaults

SessionRow(official_id, session_token, expires_at) ==
    [ official_id |-> official_id,
      session_token |-> session_token,
      expires_at |-> expires_at,
      last_activity |-> datetimeNow ]

AuditRow(official_id, action, entity_id, details) ==
    [ official_id |-> official_id,
      action |-> action,
      entity_id |-> entity_id,
      details |-> details,
      created_at |-> datetimeNow ]

SeedOfficials ==
    << OfficialRow([ employee_id |-> "ERCA001", full_name |-> "System Administrator",
                     email |-> "admin@erca.gov.et", phone |-> "+251911000000",
                     password_hash |-> SeedHash, department |-> "System Administration",
                     rank_name |-> "System Administrator",
                     office_location |-> "ERCA Headquarters, Addis Ababa",
                     is_super_admin |-> 1, is_active |-> 1,
                     can_view_businesses |-> 1, can_view_transactions |-> 1,
                     can_view_reports |-> 1, can_manage_officials |-> 1,
                     can_audit_businesses |-> 1, can_issue_penalties |-> 1 ]),
       OfficialRow([ employee_id |-> "ERCA002", full_name |-> "Abebe Kebede",
                     email |-> "abebe.kebede@erca.gov.et", phone |-> "+251922334455",
                     password_hash |-> SeedHash, department |-> "Revenue Monitoring",
                     rank_name |-> "Senior Revenue Officer",
                     office_location |-> "ERCA Headquarters, Addis Ababa",
                     is_super_admin |-> 0, is_active |-> 1,
                     can_view_businesses |-> 1, can_view_transactions |-> 1,
                     can_view_reports |-> 1, can_manage_officials |-> 0,
                     can_audit_businesses |-> 0, can_issue_penalties |-> 0 ]),
       OfficialRow([ employee_id |-> "ERCA003", full_name |-> "Tigist Alemayehu",
                     email |-> "tigist.alemayehu@erca.gov.et", phone |-> "+251933445566",
                     password_hash |-> SeedHash, department |-> "Audit and Compliance",
                     rank_name |-> "Audit Inspector",
                     office_location |-> "ERCA Headquarters, Addis Ababa",
                     is_super_admin |-> 0, is_active |-> 1,
                     can_view_businesses |-> 1, can_view_transactions |-> 1,
                     can_view_reports |-> 1, can_manage_officials |-> 0,
                     can_audit_businesses |-> 1, can_issue_penalties |-> 1 ]) >>

(***************************************************************************)
(* Requests and responses.  A response keeps the route, the status code,  *)
(* the error (a short kind, "" for none), the token the request carried or *)
(* the response issued, the official the handler resolved, the rows a      *)
(* listing returned, the row a mutation addressed or created, and the      *)
(* default_password field of a creation response.                          *)
(***************************************************************************)
Response(op, status, error, token, official_id, list) ==
    [ op |-> op, status |-> status, error |-> error, token |-> token,
      official_id |-> official_id, list |-> list, entity_id |-> 0,
      default_password |-> "" ]

WithEntity(response, entity_id) == [response EXCEPT !.entity_id = entity_id]

NoResponse == Response("none", 0, "", NoToken, 0, <<>>)

\* What a handler leaves: the three tables and the response.  A handler reads
\* the tables from a record of the same shape, so that the outcome of one
\* request can be handed to the next.
Out(officials, sessions, audit, response) ==
    [ officials |-> officials, sessions |-> sessions, audit |-> audit,
      resp |-> response ]

Same(db, response) == Out(db.officials, db.sessions, db.audit, response)

\* the tables as they are now
DB == Out(erca_officials, erca_sessions, erca_audit_logs, NoResponse)

First(S) == IF S = {} THEN 0 ELSE CHOOSE i \in S : \A j \in S : i <= j

Tokens == {<<t, r>> : t \in 0..MaxTime, r \in 1..NumRand}

(***************************************************************************)
(* Queries shared by the handlers.                                         *)
(***************************************************************************)
\* WHERE (employee_id = ? OR email = ?) AND password_hash = ?  ... .first()
CredentialRow(officials, loginId, passwordHash) ==
    First({ i \in DOMAIN officials :
              /\ \/ officials[i].employee_id = loginId
                 \/ officials[i].email = loginId
              /\ officials[i].password_hash = passwordHash })

\* FROM erca_sessions WHERE session_token = ?
SessionsByToken(sessions, token) ==
    { s \in sessions : s.session_token = token }

\* expiresAt < now, both parsed as instants
ExpiredAtValidate(expires_at) == ParseDate(expires_at) < now

\* s.expires_at > datetime('now'), compared as TEXT inside the query
NotExpiredInQuery(expires_at) == TextGreater(expires_at, datetimeNow)

(***************************************************************************)
(* POST /api/erca/auth/login                                               *)
(***************************************************************************)
generateToken(rnd) == <<now, rnd>>

\* A store without the UNIQUE constraint on session_token.
TokenNeverStored(sessions, token) == FALSE

\* session_token TEXT UNIQUE NOT NULL, as the store checks the INSERT
TokenStored(sessions, token) == \E s \in sessions : s.session_token = token

LoginInsertSession(sessions, official_id, token) ==
    sessions \cup {SessionRow(official_id, token, toISOString(now + SessionTtl))}

\* SET last_login = CURRENT_TIMESTAMP, failed_login_attempts = 0
LoginUpdateOfficial(officials, id) ==
    [officials EXCEPT ![id].failed_login_attempts = 0]

\* A log that keeps only its latest entry: what an append-only log must differ from.
LoginAuditOnly(audit, id) == <<AuditRow(id, "login", 0, <<>>)>>

LoginAudit(audit, id) == Append(audit, AuditRow(id, "login", 0, <<>>))

\* The refusals of a login that does not read is_active.
LoginRefusalOfAnyStatus(officials, loginId, password) ==
    LET id == CredentialRow(officials, loginId, hashPassword(password)) IN
    CASE loginId = "" \/ password = "" -> Response("login", 400, "required", NoToken, 0, <<>>)
      [] id = 0 -> Response("login", 401, "invalid_credentials", NoToken, 0, <<>>)
      [] officials[id].account_locked # 0 -> Response("login", 403, "locked", NoToken, id, <<>>)
      [] OTHER -> NoResponse

LoginRefusal(officials, loginId, password) ==
    LET id == CredentialRow(officials, loginId, hashPassword(password)) IN
    CASE loginId = "" \/ password = "" -> Response("login", 400, "required", NoToken, 0, <<>>)
      [] id = 0 -> Response("login", 401, "invalid_credentials", NoToken, 0, <<>>)
      [] officials[id].is_active = 0 -> Response("login", 403, "inactive", NoToken, id, <<>>)
      [] officials[id].account_locked # 0 -> Response("login", 403, "locked", NoToken, id, <<>>)
      [] OTHER -> NoResponse

\* A refusal that counts the failed attempt and locks the official named.
LoginRefusedAndCounted(db, loginId, refusal) ==
    Out([ i \in DOMAIN db.officials |->
            IF /\ refusal.status = 401
               /\ \/ db.officials[i].employee_id = loginId
                  \/ db.officials[i].email = loginId
            THEN [db.officials[i] EXCEPT !.failed_login_attempts = 1,
                                         !.account_locked = 1]
            ELSE db.officials[i] ],
        db.sessions, db.audit, refusal)

\* return c.json({ error }, status): a refused login writes nothing
LoginRefused(db, loginId, refusal) == Same(db, refusal)

LoginHandler(db, loginId, password, rnd) ==
    LET refusal == LoginRefusal(db.officials, loginId, password)
        id == CredentialRow(db.officials, loginId, hashPassword(password))
        token == generateToken(rnd)
    IN  IF refusal # NoResponse THEN LoginRefused(db, loginId, refusal)
        ELSE IF TokenStored(db.sessions, token)
        THEN Same(db, Response("login", 500, "unique_session_token", NoToken, id, <<>>))
        ELSE Out(LoginUpdateOfficial(db.officials, id),
                 LoginInsertSession(db.sessions, id, token),
                 LoginAudit(db.audit, id),
                 Response("login", 200, "", token, id, <<>>))

(***************************************************************************)
(* POST /api/erca/auth/validate                                            *)
(***************************************************************************)
ValidateDeleteExpired(sessions, token) ==
    { s \in sessions : s.session_token # token }

\* A validate that slides the expiry of the session it validates.
ValidateTouchAndExtend(sessions, token) ==
    { IF s.session_token = token
      THEN [s EXCEPT !.last_activity = datetimeNow,
                     !.expires_at = toISOString(now + SessionTtl)]
      ELSE s :
      s \in sessions }

ValidateTouch(sessions, token) ==
    { IF s.session_token = token THEN [s EXCEPT !.last_activity = datetimeNow] ELSE s :
      s \in sessions }

ValidateHandler(db, token) ==
    LET found == SessionsByToken(db.sessions, token) IN
    IF token = NoToken
    THEN Same(db, Response("validate", 400, "no_token", token, 0, <<>>))
    ELSE IF found = {}
    THEN Same(db, Response("validate", 200, "invalid_session", token, 0, <<>>))
    ELSE LET session == CHOOSE s \in found : TRUE
             owner == db.officials[session.official_id]
         IN  IF ExpiredAtValidate(session.expires_at)
             THEN Out(db.officials, ValidateDeleteExpired(db.sessions, token), db.audit,
                      Response("validate", 200, "expired", token, session.official_id, <<>>))
             ELSE IF owner.is_active = 0
             THEN Same(db, Response("validate", 200, "inactive", token,
                                    session.official_id, <<>>))
             ELSE IF owner.account_locked # 0
             THEN Same(db, Response("validate", 200, "locked", token,
                                    session.official_id, <<>>))
             ELSE Out(db.officials, ValidateTouch(db.sessions, token), db.audit,
                      Response("validate", 200, "", token, session.official_id, <<>>))

\* the body's "valid" field
Valid(response) == response.op = "validate" /\ response.error = ""

(***************************************************************************)
(* POST /api/erca/auth/logout                                              *)
(***************************************************************************)
\* A logout that ends every session of the token's owner.
LogoutDeleteOfOwner(sessions, token) ==
    { s \in sessions :
        \A t \in SessionsByToken(sessions, token) : s.official_id # t.official_id }

LogoutDelete(sessions, token) == { s \in sessions : s.session_token # token }

\* the SELECT that looks the owner up runs on the table the DELETE left
LogoutAudit(audit, sessionsAfterDelete, token) ==
    LET found == SessionsByToken(sessionsAfterDelete, token) IN
    IF found = {} THEN audit
    ELSE Append(audit, AuditRow((CHOOSE s \in found : TRUE).official_id,
                                "logout", 0, <<>>))

LogoutHandler(db, token) ==
    IF token = NoToken
    THEN Same(db, Response("logout", 200, "", token, 0, <<>>))
    ELSE LET after == LogoutDelete(db.sessions, token) IN
         Out(db.officials, after, LogoutAudit(db.audit, after, token),
             Response("logout", 200, "", token, 0, <<>>))

(***************************************************************************)
(* Session checks of the bearer-token routes.                              *)
(***************************************************************************)
\* lines 310-315 and 409-414: the join does not read is_active
SessionOfficial(db, token) ==
    First({ s.official_id : s \in
              { x \in SessionsByToken(db.sessions, token) :
                  NotExpiredInQuery(x.expires_at) } })

\* lines 2234-2239, 2272-2277, 2333-2338, 2436-2441, 2471-2476
AdminSessionOfficial(db, token) ==
    First({ s.official_id : s \in
              { x \in SessionsByToken(db.sessions, token) :
                  /\ db.officials[x.official_id].is_active = 1
                  /\ NotExpiredInQuery(x.expires_at) } })

\* An authorization that reads the flag alone, with no super-admin override.
MayManageByFlag(officials, id) ==
    /\ id # 0
    /\ officials[id].can_manage_officials # 0

\* An authorization that reads is_super_admin alone, as GET /api/erca/officials does.
MayManageAsSuperAdmin(officials, id) ==
    /\ id # 0
    /\ officials[id].is_super_admin # 0

\* An authorization that asks for a session and reads no flag of its owner.
MayManageWithAnySession(officials, id) == id # 0

\* !session || (!session.is_super_admin && !session.can_manage_officials)
MayManageOfficials(officials, id) ==
    /\ id # 0
    /\ \/ officials[id].is_super_admin # 0
       \/ officials[id].can_manage_officials # 0

\* !session || !session.is_super_admin
IsSuperAdminSession(officials, id) ==
    /\ id # 0
    /\ officials[id].is_super_admin # 0

\* A store without the UNIQUE constraints.
NoUniqueViolation(officials, employee_id, email) == FALSE

\* the UNIQUE constraints of erca_officials, as the store checks an insert
UniqueViolation(officials, employee_id, email) ==
    \E i \in DOMAIN officials :
        officials[i].employee_id = employee_id \/ officials[i].email = email

(***************************************************************************)
(* Ordering of result rows.  Names collate as BINARY text.                 *)
(***************************************************************************)
NameOrder ==
    << "", "Abebe Kebede", "Alice", "Bob", "System Administrator",
       "Tigist Alemayehu" >>

Collate(name) == CHOOSE i \in DOMAIN NameOrder : NameOrder[i] = name

RECURSIVE SortIds(_, _)
SortIds(S, key) ==
    IF S = {} THEN <<>>
    ELSE LET m == CHOOSE i \in S :
                    \A j \in S : key[i] < key[j] \/ (key[i] = key[j] /\ i <= j)
         IN  <<m>> \o SortIds(S \ {m}, key)

(***************************************************************************)
(* POST /api/erca/admin/setup                                              *)
(***************************************************************************)
SETUP_KEY == "ERCA_SUPER_ADMIN_SETUP_2025"

\* SELECT id FROM erca_officials WHERE is_super_admin = 1
SetupExisting(officials) ==
    \E i \in DOMAIN officials : officials[i].is_super_admin = 1

\* The INSERT names a column "rank".  The table of migration 0004 has it; the
\* table of migration 0005 has rank_name instead, and always holds the seeded
\* rows.  A table with no row is the table of migration 0004.
HasRankColumn(officials) ==
    \A i \in DOMAIN officials : "rank" \in DOMAIN officials[i]

\* the row the INSERT writes into the table of migration 0004
SetupRow(body) ==
    [ full_name |-> body.full_name, employee_id |-> body.employee_id,
      email |-> body.email, phone |-> body.phone,
      password_hash |-> hashPassword(body.password), rank |-> "cg",
      department |-> "Administration", is_super_admin |-> 1, is_active |-> 1,
      updated_at |-> datetimeNow ]

SetupInsert(db, body) ==
    IF ~HasRankColumn(db.officials)
    THEN Same(db, Response("setup", 500, "no_such_column", NoToken, 0, <<>>))
    ELSE IF UniqueViolation(db.officials, body.employee_id, body.email)
    THEN Same(db, Response("setup", 500, "unique_constraint", NoToken, 0, <<>>))
    ELSE Out(Append(db.officials, SetupRow(body)), db.sessions, db.audit,
             WithEntity(Response("setup", 200, "", NoToken, 0, <<>>),
                        Len(db.officials) + 1))

\* the check of the key, lines 2073-2075
SetupRefusal(body) ==
    IF body.setup_key # SETUP_KEY
    THEN Response("setup", 403, "setup_key", NoToken, 0, <<>>)
    ELSE NoResponse

SetupHandler(db, body) ==
    IF SetupRefusal(body) # NoResponse THEN Same(db, SetupRefusal(body))
    ELSE IF SetupExisting(db.officials)
    THEN Same(db, Response("setup", 400, "already_exists", NoToken, 0, <<>>))
    ELSE SetupInsert(db, body)

(***************************************************************************)
(* POST /api/erca/auth/register                                            *)
(***************************************************************************)
WellFormedEmails ==
    { "admin@erca.gov.et", "abebe.kebede@erca.gov.et",
      "tigist.alemayehu@erca.gov.et", "alice@x.gov", "bob@x.gov" }

EmailFormatOk(email) == email \in WellFormedEmails

\* permissions?.flag || 0
PermissionOr0(permissions, flag) ==
    IF flag \in DOMAIN permissions THEN permissions[flag] ELSE 0

\* permissions?.flag !== undefined ? permissions.flag : 1
PermissionOr1(permissions, flag) ==
    IF flag \in DOMAIN permissions THEN permissions[flag] ELSE 1

\* x || null
OrNull(x) == IF x = "" THEN NULL ELSE x

RegisterRow(body) ==
    OfficialRow([ employee_id |-> body.employee_id,
                  full_name |-> body.full_name,
                  email |-> body.email,
                  phone |-> OrNull(body.phone),
                  password_hash |-> hashPassword(body.password),
                  department |-> body.department,
                  rank_name |-> body.rank_name,
                  office_location |-> OrNull(body.office_location),
                  is_super_admin |-> PermissionOr0(body.permissions, "is_super_admin"),
                  is_active |-> 1,
                  can_view_businesses |-> PermissionOr1(body.permissions, "can_view_businesses"),
                  can_view_transactions |-> PermissionOr1(body.permissions, "can_view_transactions"),
                  can_view_reports |-> PermissionOr1(body.permissions, "can_view_reports"),
                  can_manage_officials |-> PermissionOr0(body.permissions, "can_manage_officials"),
                  can_audit_businesses |-> PermissionOr0(body.permissions, "can_audit_businesses"),
                  can_issue_penalties |-> PermissionOr0(body.permissions, "can_issue_penalties") ])

\* the checks of the body, lines 291-306
RegisterInvalid(body) ==
    CASE \/ body.employee_id = "" \/ body.full_name = "" \/ body.email = ""
         \/ body.password = "" \/ body.department = "" \/ body.rank_name = ""
           -> Response("register", 400, "missing_fields", body.created_by_token, 0, <<>>)
      [] ~EmailFormatOk(body.email)
           -> Response("register", 400, "email_format", body.created_by_token, 0, <<>>)
      [] PasswordLength(body.password) < 8
           -> Response("register", 400, "password_length", body.created_by_token, 0, <<>>)
      [] OTHER -> NoResponse

\* if (created_by_token) { ... }, lines 309-320
RegisterUnauthorized(db, body) ==
    LET session == SessionOfficial(db, body.created_by_token) IN
    IF body.created_by_token # NoToken /\ ~IsSuperAdminSession(db.officials, session)
    THEN Response("register", 403, "unauthorized", body.created_by_token, session, <<>>)
    ELSE NoResponse

\* SELECT id FROM erca_officials WHERE employee_id = ? OR email = ?
RegisterExisting(officials, body) ==
    \E i \in DOMAIN officials :
        \/ officials[i].employee_id = body.employee_id
        \/ officials[i].email = body.email

RegisterInsert(db, body) ==
    IF UniqueViolation(db.officials, body.employee_id, body.email)
    THEN Same(db, Response("register", 500, "unique_constraint",
                           body.created_by_token, 0, <<>>))
    ELSE Out(Append(db.officials, RegisterRow(body)), db.sessions, db.audit,
             WithEntity(Response("register", 200, "", body.created_by_token, 0, <<>>),
                        Len(db.officials) + 1))

RegisterHandler(db, body) ==
    IF RegisterInvalid(body) # NoResponse THEN Same(db, RegisterInvalid(body))
    ELSE IF RegisterUnauthorized(db, body) # NoResponse
    THEN Same(db, RegisterUnauthorized(db, body))
    ELSE IF RegisterExisting(db.officials, body)
    THEN Same(db, Response("register", 400, "already_exists",
                           body.created_by_token, 0, <<>>))
    ELSE RegisterInsert(db, body)

(***************************************************************************)
(* GET /api/erca/officials  and  GET /api/erca/admin/officials             *)
(***************************************************************************)
\* ORDER BY created_at DESC: the latest row first
OfficialsByCreation(officials) ==
    SortIds(DOMAIN officials, [i \in DOMAIN officials |-> 0 - i])

\* ORDER BY full_name ASC
OfficialsByName(officials) ==
    SortIds(DOMAIN officials,
            [i \in DOMAIN officials |-> Collate(officials[i].full_name)])

OfficialsHandler(db, token) ==
    LET session == SessionOfficial(db, token) IN
    IF token = NoToken
    THEN Same(db, Response("officials", 401, "authentication_required", token, 0, <<>>))
    ELSE IF ~IsSuperAdminSession(db.officials, session)
    THEN Same(db, Response("officials", 403, "unauthorized", token, session, <<>>))
    ELSE Same(db, Response("officials", 200, "", token, session,
                           OfficialsByCreation(db.officials)))

AdminOfficialsHandler(db, token) ==
    LET session == AdminSessionOfficial(db, token) IN
    IF ~MayManageOfficials(db.officials, session)
    THEN Same(db, Response("admin_officials", 403, "unauthorized", token, session, <<>>))
    ELSE Same(db, Response("admin_officials", 200, "", token, session,
                           OfficialsByName(db.officials)))

(***************************************************************************)
(* POST /api/erca/admin/officials                                          *)
(***************************************************************************)
\* x || fallback
OrElse(x, fallback) == IF x = "" THEN fallback ELSE x

CreateRow(officialData, creator) ==
    OfficialRow([ full_name |-> officialData.full_name,
                  employee_id |-> officialData.employee_id,
                  email |-> officialData.email,
                  phone |-> officialData.phone,
                  password_hash |->
                      hashPassword(OrElse(officialData.password, DefaultPassword)),
                  rank_name |-> OrElse(officialData.rank_name, "Official"),
                  department |-> OrElse(officialData.department, "General"),
                  office_location |-> OrNull(officialData.office_location),
                  created_by |-> creator ])

CreateAudit(audit, creator, entity_id, officialData) ==
    Append(audit, AuditRow(creator, "create_user", entity_id,
                           [employee_id |-> officialData.employee_id]))

CreateResponse(token, session, entity_id) ==
    [ WithEntity(Response("create", 200, "", token, session, <<>>), entity_id)
      EXCEPT !.default_password = DefaultPassword ]

CreateInsert(officials, officialData, session) ==
    Append(officials, CreateRow(officialData, session))

CreateHandler(db, token, officialData) ==
    LET session == AdminSessionOfficial(db, token) IN
    IF ~MayManageOfficials(db.officials, session)
    THEN Same(db, Response("create", 403, "unauthorized", token, session, <<>>))
    ELSE IF UniqueViolation(db.officials, officialData.employee_id, officialData.email)
    THEN Same(db, Response("create", 500, "unique_constraint", token, session, <<>>))
    ELSE Out(CreateInsert(db.officials, officialData, session),
             db.sessions,
             CreateAudit(db.audit, session, Len(db.officials) + 1, officialData),
             CreateResponse(token, session, Len(db.officials) + 1))

(***************************************************************************)
(* PUT /api/erca/admin/officials/:id                                       *)
(***************************************************************************)
\* if (updates.field): the field is present and its value is truthy
Truthy(updates, field) == field \in DOMAIN updates /\ updates[field] # ""

\* updates.is_active !== undefined
Defined(updates, field) == field \in DOMAIN updates

\* An update that writes every column the patch names.
UpdateRowOfAnyColumn(row, updates) ==
    [ f \in DOMAIN row |->
        CASE f \in DOMAIN updates -> updates[f]
          [] f = "updated_at" -> datetimeNow
          [] OTHER -> row[f] ]

UpdateRow(row, updates) ==
    [ f \in DOMAIN row |->
        CASE f \in {"full_name", "email", "phone", "rank_name", "department",
                    "office_location"} /\ Truthy(updates, f) -> updates[f]
          [] f = "is_active" /\ Defined(updates, f) -> updates[f]
          [] f = "updated_at" -> datetimeNow
          [] OTHER -> row[f] ]

UpdateOfficials(officials, official_id, updates) ==
    [ i \in DOMAIN officials |->
        IF i = official_id THEN UpdateRow(officials[i], updates) ELSE officials[i] ]

\* the UNIQUE constraint on email, as the store checks the UPDATE
UpdateUniqueViolation(officials, official_id, updates) ==
    /\ official_id \in DOMAIN officials
    /\ Truthy(updates, "email")
    /\ \E i \in DOMAIN officials : i # official_id /\ officials[i].email = updates.email

UpdateAudit(audit, session, official_id, updates) ==
    Append(audit, AuditRow(session, "update_user", official_id, updates))

UpdateHandler(db, token, official_id, updates) ==
    LET session == AdminSessionOfficial(db, token) IN
    IF ~MayManageOfficials(db.officials, session)
    THEN Same(db, WithEntity(Response("update", 403, "unauthorized", token, session, <<>>),
                             official_id))
    ELSE IF UpdateUniqueViolation(db.officials, official_id, updates)
    THEN Same(db, WithEntity(Response("update", 500, "unique_constraint", token,
                                      session, <<>>),
                             official_id))
    ELSE Out(UpdateOfficials(db.officials, official_id, updates),
             db.sessions,
             UpdateAudit(db.audit, session, official_id, updates),
             WithEntity(Response("update", 200, "", token, session, <<>>), official_id))

(***************************************************************************)
(* GET /api/erca/admin/audit-logs                                          *)
(***************************************************************************)
DefaultLimit == 100

\* JOIN erca_officials o ON a.official_id = o.id ORDER BY a.created_at DESC
AuditLogsByDate(db) ==
    LET joined == { i \in DOMAIN db.audit :
                      db.audit[i].official_id \in DOMAIN db.officials }
    IN  SortIds(joined, [i \in joined |-> 0 - ParseDate(db.audit[i].created_at)])

\* LIMIT ?
Limit(rows, limit) ==
    IF limit < 0 \/ limit >= Len(rows) THEN rows ELSE SubSeq(rows, 1, limit)

AuditLogsHandler(db, token, limit) ==
    LET session == AdminSessionOfficial(db, token) IN
    IF ~IsSuperAdminSession(db.officials, session)
    THEN Same(db, Response("audit_logs", 403, "unauthorized", token, session, <<>>))
    ELSE Same(db, Response("audit_logs", 200, "", token, session,
                           Limit(AuditLogsByDate(db), limit)))

(***************************************************************************)
(* POST /api/erca/auth/change-password                                     *)
(***************************************************************************)
\* A query of the current password that does not compare the hash.
PasswordRowOfAnySecret(officials, employee_id, password_hash) ==
    First({ i \in DOMAIN officials : officials[i].employee_id = employee_id })

\* SELECT id FROM erca_officials WHERE employee_id = ? AND password_hash = ?
PasswordRow(officials, employee_id, password_hash) ==
    First({ i \in DOMAIN officials :
              /\ officials[i].employee_id = employee_id
              /\ officials[i].password_hash = password_hash })

ChangePasswordUpdate(officials, id, new_password) ==
    [officials EXCEPT ![id].password_hash = hashPassword(new_password),
                      ![id].updated_at = datetimeNow]

ChangePasswordAudit(audit, session) ==
    Append(audit, AuditRow(session, "password_change", 0, [success |-> TRUE]))

\* A change of password that revokes nothing.
ChangePasswordKeepSessions(sessions, id) == sessions

ChangePasswordDeleteSessions(sessions, id) ==
    { s \in sessions : s.official_id # id }

\* the response names the session's owner (official_id) and the official whose
\* password was changed (entity_id)
ChangePasswordResponse(token, session, official) ==
    WithEntity(Response("change_password", 200, "", token, session, <<>>), official)

ChangePasswordHandler(db, token, employee_id, current_password, new_password) ==
    LET session == AdminSessionOfficial(db, token)
        official == PasswordRow(db.officials, employee_id,
                                hashPassword(current_password))
    IN  IF session = 0
        THEN Same(db, Response("change_password", 403, "unauthorized", token, 0, <<>>))
        ELSE IF official = 0
        THEN Same(db, Response("change_password", 401, "current_password", token,
                               session, <<>>))
        ELSE Out(ChangePasswordUpdate(db.officials, official, new_password),
                 ChangePasswordDeleteSessions(db.sessions, official),
                 ChangePasswordAudit(db.audit, session),
                 ChangePasswordResponse(token, session, official))

(***************************************************************************)
(* A failing audit write.  Each handler awaits its INSERT INTO             *)
(* erca_audit_logs inside the try block of the whole request: when the     *)
(* statement throws, the statements before it have run, those after it do  *)
(* not, and the catch answers 500 with the error's message.                *)
(***************************************************************************)
\* out: what the handler leaves when the INSERT succeeds; sessions: the
\* session table as it is when the INSERT runs
AuditInsertThrows(db, out, sessions) ==
    IF out.resp.status # 200 THEN out
    ELSE Out(out.officials, sessions, db.audit,
             Response(out.resp.op, 500, "audit_insert", NoToken,
                      out.resp.official_id, <<>>))

\* lines 101-136: the session is inserted and the official updated before
LoginAuditFailed(db, loginId, password, rnd) ==
    LET out == LoginHandler(db, loginId, password, rnd) IN
    AuditInsertThrows(db, out, out.sessions)

\* lines 2287-2311: the official is inserted before
CreateAuditFailed(db, token, officialData) ==
    LET out == CreateHandler(db, token, officialData) IN
    AuditInsertThrows(db, out, db.sessions)

\* lines 2378-2390: the official is updated before
UpdateAuditFailed(db, token, official_id, updates) ==
    LET out == UpdateHandler(db, token, official_id, updates) IN
    AuditInsertThrows(db, out, db.sessions)

\* lines 2494-2512: the password is updated before, the DELETE of the
\* sessions comes after and is not reached
ChangePasswordAuditFailed(db, token, employee_id, current_password, new_password) ==
    LET out == ChangePasswordHandler(db, token, employee_id, current_password,
                                     new_password)
    IN  AuditInsertThrows(db, out, db.sessions)

(***************************************************************************)
(* Request inputs.                                                         *)
(***************************************************************************)
\* A token no session row holds: every handler treats all of them alike.
AbsentToken ==
    LET free == { t \in Tokens : SessionsByToken(erca_sessions, t) = {} }
    IN  CHOOSE t \in free : \A u \in free : t[1] < u[1] \/ (t[1] = u[1] /\ t[2] <= u[2])

\* the bearer tokens a client presents: the token of a stored session, or a
\* token that was never issued or is no longer stored
BearerInputs == {AbsentToken} \cup {s.session_token : s \in erca_sessions}

\* the routes that read the token from the body may also be sent none
TokenInputs == {NoToken} \cup BearerInputs

LoginInputs ==
    { <<"E100", "secret-one">>, <<"E100", "secret-two">>,
      <<"bob@x.gov", "secret-one">>, <<"bob@x.gov", DefaultPassword>>,
      <<"", "secret-one">> }

Alice == [employee_id |-> "E100", email |-> "alice@x.gov", full_name |-> "Alice"]

Bob == [employee_id |-> "E200", email |-> "bob@x.gov", full_name |-> "Bob"]

\* a new employee code with the email of a seeded official
SameEmail == [employee_id |-> "E300", email |-> "admin@erca.gov.et", full_name |-> "Bob"]

\* the employee code of a seeded official with a new email
SameCode == [employee_id |-> "ERCA002", email |-> "bob@x.gov", full_name |-> "Bob"]

Malformed == [employee_id |-> "E300", email |-> "not-an-email", full_name |-> "Bob"]

NoFlags ==
    [ is_super_admin |-> 0, can_view_businesses |-> 0, can_view_transactions |-> 0,
      can_view_reports |-> 0, can_manage_officials |-> 0, can_audit_businesses |-> 0,
      can_issue_penalties |-> 0 ]

RegisterBody(identity, password, permissions, token) ==
    [ employee_id |-> identity.employee_id, full_name |-> identity.full_name,
      email |-> identity.email, phone |-> "", password |-> password,
      department |-> "Audit", rank_name |-> "Officer", office_location |-> "",
      permissions |-> permissions, created_by_token |-> token ]

AliceSuperAdmin ==
    RegisterBody(Alice, "secret-one", [NoFlags EXCEPT !.is_super_admin = 1], NoToken)

RegisterInputs ==
    { RegisterBody(Alice, "secret-one", <<>>, NoToken),
      AliceSuperAdmin,
      RegisterBody(SameEmail, "secret-one", <<>>, NoToken),
      RegisterBody(SameCode, "secret-one", <<>>, NoToken),
      RegisterBody(Malformed, "secret-one", <<>>, NoToken),
      RegisterBody(Bob, DefaultPassword, <<>>, NoToken) }
    \cup { RegisterBody(Bob, "secret-one", [can_manage_officials |-> 1], t) :
             t \in TokenInputs }

OfficialData(identity, password) ==
    [ employee_id |-> identity.employee_id, full_name |-> identity.full_name,
      email |-> identity.email, phone |-> "+251900000000", password |-> password,
      department |-> "", rank_name |-> "", office_location |-> "" ]

CreateInputs ==
    { OfficialData(Bob, ""), OfficialData(Bob, "secret-one"),
      OfficialData(SameCode, "") }

\* the officials created at run time, and an id that names no row
UpdateTargets ==
    ((DOMAIN erca_officials) \ (DOMAIN SeedOfficials)) \cup {Len(erca_officials) + 1}

UpdateInputs ==
    { [is_active |-> 0], [is_active |-> 1],
      [full_name |-> "", email |-> "bob@x.gov"] }

ChangePasswordInputs ==
    { <<"E100", "secret-one">>, <<"E200", DefaultPassword>>,
      <<"E200", "secret-two">> }

\* the limit parameter of the query string, "" when the request has none
LimitQueries == {"", "1", "0", "-1"}

parseInt(text) ==
    CASE text = "100" -> DefaultLimit
      [] text = "1" -> 1
      [] text = "0" -> 0
      [] text = "-1" -> 0 - 1

\* parseInt(c.req.query('limit') || '100')
LimitOf(query) == parseInt(IF query = "" THEN "100" ELSE query)

LimitInputs == { LimitOf(query) : query \in LimitQueries }

SetupBody(identity, setup_key) ==
    [ full_name |-> identity.full_name, employee_id |-> identity.employee_id,
      email |-> identity.email, phone |-> "+251900000000",
      password |-> "secret-one", setup_key |-> setup_key ]

SetupInputs ==
    { SetupBody(identity, setup_key) :
        identity \in {Alice, Bob}, setup_key \in {SETUP_KEY, "guess"} }

(***************************************************************************)
(* The state after the migrations, and one action per request.  A request  *)
(* served by one of these actions runs from its first statement to its     *)
(* response with no other request in between.                              *)
(***************************************************************************)
LoginLocals(pc, loginId, password, official, token, response) ==
    [ pc |-> pc, loginId |-> loginId, passwordHash |-> hashPassword(password),
      official |-> official, token |-> token, resp |-> response ]

\* body: <<employee_id, current_password, new_password>>
ChangePasswordLocals(pc, token, body, session, official, response) ==
    [ pc |-> pc, token |-> token, employee_id |-> body[1],
      current_password |-> body[2], new_password |-> body[3],
      session |-> session, official |-> official, resp |-> response ]

RegisterLocals(pc, body, response) == [pc |-> pc, body |-> body, resp |-> response]

CreateLocals(pc, token, officialData, session, entity_id, response) ==
    [ pc |-> pc, token |-> token, officialData |-> officialData,
      session |-> session, entity_id |-> entity_id, resp |-> response ]

SetupLocals(pc, body, response) == [pc |-> pc, body |-> body, resp |-> response]

NoRequests ==
    [ login |-> LoginLocals("idle", "", "", 0, NoToken, NoResponse),
      change_password |->
          ChangePasswordLocals("idle", NoToken, <<"", "", "">>, 0, 0, NoResponse),
      register |-> RegisterLocals("idle", <<>>, NoResponse),
      create |-> CreateLocals("idle", NoToken, <<>>, 0, 0, NoResponse),
      setup_a |-> SetupLocals("idle", <<>>, NoResponse),
      setup_b |-> SetupLocals("idle", <<>>, NoResponse) ]

Init ==
    /\ now = 0
    /\ erca_officials = SeedOfficials
    /\ erca_sessions = {}
    /\ erca_audit_logs = <<>>
    /\ inflight = NoRequests

Apply(out) ==
    /\ Len(out.audit) <= MaxAudit
    /\ erca_officials' = out.officials
    /\ erca_sessions' = out.sessions
    /\ erca_audit_logs' = out.audit
    /\ UNCHANGED <<now, inflight>>

Tick ==
    /\ now < MaxTime
    /\ now' = now + 1
    /\ UNCHANGED <<erca_officials, erca_sessions, erca_audit_logs, inflight>>

Setup == \E body \in SetupInputs : Apply(SetupHandler(DB, body))

Login ==
    \E credentials \in LoginInputs, rnd \in 1..NumRand :
        Apply(LoginHandler(DB, credentials[1], credentials[2], rnd))

Validate == \E token \in TokenInputs : Apply(ValidateHandler(DB, token))

Logout == \E token \in TokenInputs : Apply(LogoutHandler(DB, token))

Register == \E body \in RegisterInputs : Apply(RegisterHandler(DB, body))

Officials == \E token \in TokenInputs : Apply(OfficialsHandler(DB, token))

AdminOfficials == \E token \in BearerInputs : Apply(AdminOfficialsHandler(DB, token))

Create ==
    \E token \in BearerInputs, officialData \in CreateInputs :
        Apply(CreateHandler(DB, token, officialData))

Update ==
    \E token \in BearerInputs, official_id \in UpdateTargets, updates \in UpdateInputs :
        Apply(UpdateHandler(DB, token, official_id, updates))

AuditLogs ==
    \E token \in BearerInputs, limit \in LimitInputs :
        Apply(AuditLogsHandler(DB, token, limit))

ChangePassword ==
    \E token \in BearerInputs, credentials \in ChangePasswordInputs :
        Apply(ChangePasswordHandler(DB, token, credentials[1], credentials[2],
                                    "secret-two"))

Next ==
    \/ Tick
    \/ Setup
    \/ Login
    \/ Validate
    \/ Logout
    \/ Register
    \/ Officials
    \/ AdminOfficials
    \/ Create
    \/ Update
    \/ AuditLogs
    \/ ChangePassword

Spec == Init /\ [][Next]_vars

(***************************************************************************)
(* Requests in flight.  A handler is an async function: it gives way at    *)
(* every await, and the store runs each statement as a whole.  One login,  *)
(* one change-password, one register and one create request advance one    *)
(* statement at a time, in any order, among requests that are served       *)
(* whole; each keeps the locals of its handler in "inflight".              *)
(***************************************************************************)
Stepped(request, locals) ==
    inflight' = [inflight EXCEPT ![request] = locals]

RaceLoginInputs == { <<"E100", "secret-one">>, <<"E100", "secret-two">> }

\* lines 43-92: the credential query and the checks of its row
LoginSelect ==
    \E credentials \in RaceLoginInputs :
        LET refusal == LoginRefusal(erca_officials, credentials[1], credentials[2])
            id == CredentialRow(erca_officials, credentials[1],
                                hashPassword(credentials[2]))
        IN  /\ inflight.login.pc = "idle"
            /\ Stepped("login",
                   IF refusal # NoResponse
                   THEN LoginLocals("done", credentials[1], credentials[2], 0,
                                    NoToken, refusal)
                   ELSE LoginLocals("insert_session", credentials[1], credentials[2],
                                    id, NoToken, NoResponse))
            /\ UNCHANGED <<erca_officials, erca_sessions, erca_audit_logs, now>>

\* lines 95-115: the token, the expiry and the INSERT of the session
LoginInsert ==
    \E rnd \in 1..NumRand :
        LET l == inflight.login
            token == generateToken(rnd)
        IN  /\ l.pc = "insert_session"
            /\ IF TokenStored(erca_sessions, token)
               THEN /\ Stepped("login",
                           [l EXCEPT !.pc = "done",
                                     !.resp = Response("login", 500,
                                                       "unique_session_token",
                                                       NoToken, l.official, <<>>)])
                    /\ UNCHANGED erca_sessions
               ELSE /\ erca_sessions' =
                           LoginInsertSession(erca_sessions, l.official, token)
                    /\ Stepped("login", [l EXCEPT !.pc = "update_official",
                                                  !.token = token])
            /\ UNCHANGED <<erca_officials, erca_audit_logs, now>>

\* lines 118-122
LoginUpdate ==
    /\ inflight.login.pc = "update_official"
    /\ erca_officials' = LoginUpdateOfficial(erca_officials, inflight.login.official)
    /\ Stepped("login", [inflight.login EXCEPT !.pc = "audit"])
    /\ UNCHANGED <<erca_sessions, erca_audit_logs, now>>

\* lines 125-136, and the response
LoginAuditStep ==
    LET l == inflight.login IN
    /\ l.pc = "audit"
    /\ erca_audit_logs' = LoginAudit(erca_audit_logs, l.official)
    /\ Stepped("login",
           [l EXCEPT !.pc = "done",
                     !.resp = Response("login", 200, "", l.token, l.official, <<>>)])
    /\ UNCHANGED <<erca_officials, erca_sessions, now>>

RaceChangePasswordBody == <<"E100", "secret-one", "secret-two">>

\* lines 2471-2480: the session query
ChangePasswordSession ==
    \E token \in BearerInputs :
        LET session == AdminSessionOfficial(DB, token) IN
        /\ inflight.change_password.pc = "idle"
        /\ Stepped("change_password",
               IF session = 0
               THEN ChangePasswordLocals("done", token, RaceChangePasswordBody, 0, 0,
                        Response("change_password", 403, "unauthorized", token, 0, <<>>))
               ELSE ChangePasswordLocals("verify", token, RaceChangePasswordBody,
                                         session, 0, NoResponse))
        /\ UNCHANGED <<erca_officials, erca_sessions, erca_audit_logs, now>>

\* lines 2483-2491: the query of the current password
ChangePasswordVerify ==
    LET l == inflight.change_password
        official == PasswordRow(erca_officials, l.employee_id,
                                hashPassword(l.current_password))
    IN  /\ l.pc = "verify"
        /\ Stepped("change_password",
               IF official = 0
               THEN [l EXCEPT !.pc = "done",
                              !.resp = Response("change_password", 401,
                                                "current_password", l.token,
                                                l.session, <<>>)]
               ELSE [l EXCEPT !.pc = "update", !.official = official])
        /\ UNCHANGED <<erca_officials, erca_sessions, erca_audit_logs, now>>

\* lines 2494-2499
ChangePasswordUpdateStep ==
    LET l == inflight.change_password IN
    /\ l.pc = "update"
    /\ erca_officials' = ChangePasswordUpdate(erca_officials, l.official, l.new_password)
    /\ Stepped("change_password", [l EXCEPT !.pc = "audit"])
    /\ UNCHANGED <<erca_sessions, erca_audit_logs, now>>

\* lines 2502-2505
ChangePasswordAuditStep ==
    LET l == inflight.change_password IN
    /\ l.pc = "audit"
    /\ erca_audit_logs' = ChangePasswordAudit(erca_audit_logs, l.session)
    /\ Stepped("change_password", [l EXCEPT !.pc = "delete_sessions"])
    /\ UNCHANGED <<erca_officials, erca_sessions, now>>

\* lines 2508-2512, and the response
ChangePasswordDeleteStep ==
    LET l == inflight.change_password IN
    /\ l.pc = "delete_sessions"
    /\ erca_sessions' = ChangePasswordDeleteSessions(erca_sessions, l.official)
    /\ Stepped("change_password",
           [l EXCEPT !.pc = "done",
                     !.resp = ChangePasswordResponse(l.token, l.session, l.official)])
    /\ UNCHANGED <<erca_officials, erca_audit_logs, now>>

RaceRegisterBody == RegisterBody(Bob, "secret-one", <<>>, NoToken)

\* lines 291-330 of a request that carries no created_by_token: the checks of
\* the body and the query for an existing row
RegisterSelect ==
    LET body == RaceRegisterBody IN
    /\ inflight.register.pc = "idle"
    /\ Stepped("register",
           IF RegisterInvalid(body) # NoResponse
           THEN RegisterLocals("done", body, RegisterInvalid(body))
           ELSE IF RegisterExisting(erca_officials, body)
           THEN RegisterLocals("done", body,
                    Response("register", 400, "already_exists", NoToken, 0, <<>>))
           ELSE RegisterLocals("insert", body, NoResponse))
    /\ UNCHANGED <<erca_officials, erca_sessions, erca_audit_logs, now>>

\* lines 336-376, and the response
RegisterInsertStep ==
    LET l == inflight.register
        out == RegisterInsert(DB, l.body)
    IN  /\ l.pc = "insert"
        /\ erca_officials' = out.officials
        /\ Stepped("register", RegisterLocals("done", l.body, out.resp))
        /\ UNCHANGED <<erca_sessions, erca_audit_logs, now>>

\* lines 2272-2281: the session query
CreateSession ==
    \E token \in BearerInputs :
        LET session == AdminSessionOfficial(DB, token)
            officialData == OfficialData(Bob, "")
        IN  /\ inflight.create.pc = "idle"
            /\ Stepped("create",
                   IF ~MayManageOfficials(erca_officials, session)
                   THEN CreateLocals("done", token, officialData, session, 0,
                            Response("create", 403, "unauthorized", token, session, <<>>))
                   ELSE CreateLocals("insert", token, officialData, session, 0,
                                     NoResponse))
            /\ UNCHANGED <<erca_officials, erca_sessions, erca_audit_logs, now>>

\* lines 2286-2301
CreateInsertStep ==
    LET l == inflight.create IN
    /\ l.pc = "insert"
    /\ IF UniqueViolation(erca_officials, l.officialData.employee_id,
                          l.officialData.email)
       THEN /\ Stepped("create",
                   [l EXCEPT !.pc = "done",
                             !.resp = Response("create", 500, "unique_constraint",
                                               l.token, l.session, <<>>)])
            /\ UNCHANGED erca_officials
       ELSE /\ erca_officials' = CreateInsert(erca_officials, l.officialData, l.session)
            /\ Stepped("create", [l EXCEPT !.pc = "audit",
                                           !.entity_id = Len(erca_officials) + 1])
    /\ UNCHANGED <<erca_sessions, erca_audit_logs, now>>

\* lines 2304-2311, and the response
CreateAuditStep ==
    LET l == inflight.create IN
    /\ l.pc = "audit"
    /\ erca_audit_logs' =
           CreateAudit(erca_audit_logs, l.session, l.entity_id, l.officialData)
    /\ Stepped("create",
           [l EXCEPT !.pc = "done",
                     !.resp = CreateResponse(l.token, l.session, l.entity_id)])
    /\ UNCHANGED <<erca_officials, erca_sessions, now>>

\* the requests served whole while the others are in flight
RaceRegister == Apply(RegisterHandler(DB, AliceSuperAdmin))

RaceLogin ==
    \E rnd \in 1..NumRand : Apply(LoginHandler(DB, "E100", "secret-one", rnd))

RaceTick ==
    /\ now < MaxRaceTime
    /\ now' = now + 1
    /\ UNCHANGED <<erca_officials, erca_sessions, erca_audit_logs, inflight>>

\* a login and a change-password request in flight
NextLoginRace ==
    \/ RaceTick
    \/ RaceRegister
    \/ RaceLogin
    \/ LoginSelect
    \/ LoginInsert
    \/ LoginUpdate
    \/ LoginAuditStep
    \/ ChangePasswordSession
    \/ ChangePasswordVerify
    \/ ChangePasswordUpdateStep
    \/ ChangePasswordAuditStep
    \/ ChangePasswordDeleteStep

SpecLoginRace == Init /\ [][NextLoginRace]_vars

\* a register and a create request in flight, among a register, logins and
\* updates served whole
NextCreateRace ==
    \/ RaceTick
    \/ RaceRegister
    \/ RaceLogin
    \/ Update
    \/ RegisterSelect
    \/ RegisterInsertStep
    \/ CreateSession
    \/ CreateInsertStep
    \/ CreateAuditStep

SpecCreateRace == Init /\ [][NextCreateRace]_vars

\* The tables after migration 0004, the schema the INSERT of setup is written
\* for: erca_officials holds no row until setup writes the first.
InitBeforeSetup ==
    /\ now = 0
    /\ erca_officials = <<>>
    /\ erca_sessions = {}
    /\ erca_audit_logs = <<>>
    /\ inflight = NoRequests

SetupRequests == {"setup_a", "setup_b"}

\* lines 2073-2085: the check of the key and the query for a super admin
SetupSelect ==
    \E request \in SetupRequests, body \in SetupInputs :
        /\ inflight[request].pc = "idle"
        /\ Stepped(request,
               IF SetupRefusal(body) # NoResponse
               THEN SetupLocals("done", body, SetupRefusal(body))
               ELSE IF SetupExisting(erca_officials)
               THEN SetupLocals("done", body,
                        Response("setup", 400, "already_exists", NoToken, 0, <<>>))
               ELSE SetupLocals("insert", body, NoResponse))
        /\ UNCHANGED <<erca_officials, erca_sessions, erca_audit_logs, now>>

\* lines 2088-2100: the INSERT, and the response
SetupInsertStep ==
    \E request \in SetupRequests :
        LET l == inflight[request]
            out == SetupInsert(DB, l.body)
        IN  /\ l.pc = "insert"
            /\ erca_officials' = out.officials
            /\ Stepped(request, SetupLocals("done", l.body, out.resp))
            /\ UNCHANGED <<erca_sessions, erca_audit_logs, now>>

\* two setup requests in flight, among setup requests served whole
NextSetupRace ==
    \/ RaceTick
    \/ Setup
    \/ SetupSelect
    \/ SetupInsertStep

SpecSetupRace == InitBeforeSetup /\ [][NextSetupRace]_vars

\* requests whose audit write fails, lines 125-136, 2304-2311, 2387-2390 and
\* 2502-2505
LoginAuditFailure ==
    \E credentials \in RaceLoginInputs, rnd \in 1..NumRand :
        Apply(LoginAuditFailed(DB, credentials[1], credentials[2], rnd))

CreateAuditFailure ==
    \E token \in BearerInputs, officialData \in CreateInputs :
        Apply(CreateAuditFailed(DB, token, officialData))

UpdateAuditFailure ==
    \E token \in BearerInputs, official_id \in UpdateTargets, updates \in UpdateInputs :
        Apply(UpdateAuditFailed(DB, token, official_id, updates))

ChangePasswordAuditFailure ==
    \E token \in BearerInputs, credentials \in ChangePasswordInputs :
        Apply(ChangePasswordAuditFailed(DB, token, credentials[1], credentials[2],
                                        "secret-two"))

\* requests whose audit write fails, among a register and logins served whole
NextAuditFailure ==
    \/ RaceTick
    \/ RaceRegister
    \/ RaceLogin
    \/ LoginAuditFailure
    \/ CreateAuditFailure
    \/ UpdateAuditFailure
    \/ ChangePasswordAuditFailure

SpecAuditFailure == Init /\ [][NextAuditFailure]_vars

(***************************************************************************)
(* Properties.  A property about a request reads the handler's outcome on  *)
(* the tables of the state: the tables it leaves and its response.         *)
(***************************************************************************)
Owner(s) == erca_officials[s.official_id]

ExpiresAt(s) == ParseDate(s.expires_at)

\* the session check of a bearer-token route turned the request away
Unauthorized(response) == response.error = "unauthorized"

IsPrefix(s, t) == Len(s) <= Len(t) /\ SubSeq(t, 1, Len(s)) = s

\* the log a handler leaves is the log of the state and one entry more
AppendedOne(audit, action, official_id) ==
    /\ Len(audit) = Len(erca_audit_logs) + 1
    /\ IsPrefix(erca_audit_logs, audit)
    /\ audit[Len(audit)].action = action
    /\ audit[Len(audit)].official_id = official_id

CapabilityFlags ==
    { "can_view_businesses", "can_view_transactions", "can_view_reports",
      "can_manage_officials", "can_audit_businesses", "can_issue_penalties" }

\* C1: for every session S whose owner is active and not locked, validate of
\* S's token is valid iff now < S.expiresAt; at now = S.expiresAt and later it
\* is invalid and the row of S is gone from the sessions it leaves.
C1_ValidIffBeforeExpiry ==
    \A s \in erca_sessions :
        LET out == ValidateHandler(DB, s.session_token) IN
        (Owner(s).is_active = 1 /\ Owner(s).account_locked = 0) =>
            /\ (Valid(out.resp) <=> (now < ExpiresAt(s)))
            /\ (now >= ExpiresAt(s)) =>
                   SessionsByToken(out.sessions, s.session_token) = {}

\* a session of an active owner at the instant it expires
C1_AtTheInstantOfExpiry ==
    \E s \in erca_sessions :
        /\ Owner(s).is_active = 1
        /\ now = ExpiresAt(s)
        /\ Valid(ValidateHandler(DB, s.session_token).resp)

\* C2: after a change of password succeeds for official O, validate fails for
\* every token O held before the call, whichever session carried the request.
C2_PasswordChangeRevokes ==
    \A token \in BearerInputs, credentials \in ChangePasswordInputs :
        LET out == ChangePasswordHandler(DB, token, credentials[1], credentials[2],
                                         "secret-two")
        IN  out.resp.status = 200 =>
                \A s \in erca_sessions :
                    s.official_id = out.resp.entity_id =>
                        /\ ~Valid(ValidateHandler(out, s.session_token).resp)
                        /\ SessionsByToken(out.sessions, s.session_token) = {}

\* O holds two valid sessions and changes the password through one of them
C2_TwoSessionsRevoked ==
    \E s1, s2 \in erca_sessions :
        /\ s1 # s2
        /\ s1.official_id = s2.official_id
        /\ Valid(ValidateHandler(DB, s2.session_token).resp)
        /\ \E credentials \in ChangePasswordInputs :
               LET out == ChangePasswordHandler(DB, s1.session_token, credentials[1],
                                                credentials[2], "secret-two")
               IN  /\ out.resp.status = 200
                   /\ out.resp.entity_id = s1.official_id
                   /\ ~Valid(ValidateHandler(out, s2.session_token).resp)

\* C3: in every interleaving of a change of password for O with a login for
\* O, once the change has answered success no session that was authenticated
\* with O's old secret is valid.
C3_NoStaleLoginAfterChange ==
    LET p == inflight.change_password
        l == inflight.login
    IN  ( /\ p.pc = "done"
          /\ p.resp.status = 200
          /\ l.official = p.official
          /\ l.passwordHash = hashPassword(p.current_password)
          /\ l.token # NoToken )
        => ~Valid(ValidateHandler(DB, l.token).resp)

\* C4: for every official O with is_active = 0, a login with O's secret is
\* answered with an error and leaves the sessions as they were, and validate
\* of every token of O is invalid.
C4_InactiveNeverAuthenticated ==
    \A i \in DOMAIN erca_officials :
        erca_officials[i].is_active = 0 =>
            /\ \A credentials \in LoginInputs, rnd \in 1..NumRand :
                   LET out == LoginHandler(DB, credentials[1], credentials[2], rnd) IN
                   CredentialRow(erca_officials, credentials[1],
                                 hashPassword(credentials[2])) = i
                   => /\ out.resp.status # 200
                      /\ out.resp.token = NoToken
                      /\ out.sessions = erca_sessions
            /\ \A s \in erca_sessions :
                   s.official_id = i => ~Valid(ValidateHandler(DB, s.session_token).resp)

\* a deactivated official who still holds an unexpired session and whose
\* secret is still the stored one
C4_InactiveWithSession ==
    \E s \in erca_sessions :
        /\ Owner(s).is_active = 0
        /\ ~ExpiredAtValidate(s.expires_at)
        /\ \E credentials \in LoginInputs :
               /\ CredentialRow(erca_officials, credentials[1],
                                hashPassword(credentials[2])) = s.official_id
               /\ LoginHandler(DB, credentials[1], credentials[2], 1).resp.error
                      = "inactive"

\* C5: every bearer-token route (list, create, update, audit-log query, change
\* of password) turns away every token that validate finds invalid.
C5_RoutesRefuseWhatValidateRefuses ==
    \A token \in BearerInputs :
        ~Valid(ValidateHandler(DB, token).resp) =>
            /\ Unauthorized(AdminOfficialsHandler(DB, token).resp)
            /\ Unauthorized(OfficialsHandler(DB, token).resp)
            /\ \A officialData \in CreateInputs :
                   Unauthorized(CreateHandler(DB, token, officialData).resp)
            /\ \A official_id \in UpdateTargets, updates \in UpdateInputs :
                   Unauthorized(UpdateHandler(DB, token, official_id, updates).resp)
            /\ \A limit \in LimitInputs :
                   Unauthorized(AuditLogsHandler(DB, token, limit).resp)
            /\ \A credentials \in ChangePasswordInputs :
                   Unauthorized(ChangePasswordHandler(DB, token, credentials[1],
                                                      credentials[2], "secret-two").resp)

\* C6: every successful login, logout, change of password, creation and
\* update leaves the log one entry longer, the entry naming the operation; the
\* entry of a logout that deletes a session names the session's owner.
C6_OneAuditEntryPerOperation ==
    /\ \A credentials \in LoginInputs, rnd \in 1..NumRand :
           LET out == LoginHandler(DB, credentials[1], credentials[2], rnd) IN
           out.resp.status = 200 => AppendedOne(out.audit, "login", out.resp.official_id)
    /\ \A token \in BearerInputs, credentials \in ChangePasswordInputs :
           LET out == ChangePasswordHandler(DB, token, credentials[1], credentials[2],
                                            "secret-two")
           IN  out.resp.status = 200 =>
                   AppendedOne(out.audit, "password_change", out.resp.official_id)
    /\ \A token \in BearerInputs, officialData \in CreateInputs :
           LET out == CreateHandler(DB, token, officialData) IN
           out.resp.status = 200 =>
               AppendedOne(out.audit, "create_user", out.resp.official_id)
    /\ \A token \in BearerInputs, official_id \in UpdateTargets,
          updates \in UpdateInputs :
           LET out == UpdateHandler(DB, token, official_id, updates) IN
           out.resp.status = 200 =>
               AppendedOne(out.audit, "update_user", out.resp.official_id)
    /\ \A s \in erca_sessions :
           LET out == LogoutHandler(DB, s.session_token) IN
           out.resp.status = 200 => AppendedOne(out.audit, "logout", s.official_id)

\* a logout deletes a stored session and leaves the log as it was
C6_SilentLogout ==
    \E s \in erca_sessions :
        LET out == LogoutHandler(DB, s.session_token) IN
        /\ out.resp.status = 200
        /\ s \notin out.sessions
        /\ out.audit = erca_audit_logs

\* C7: the audit log is append-only: every step of every operation leaves the
\* entries written so far in place and unchanged, and the log only grows.
C7_AuditAppendOnly == [][IsPrefix(erca_audit_logs, erca_audit_logs')]_vars

\* the log holds entries of two operations
C7_LogHasGrown ==
    /\ Len(erca_audit_logs) >= 2
    /\ erca_audit_logs[1].action # erca_audit_logs[2].action

\* C8: no two officials share an employee code or an email, in every state
\* that requests served whole or interleaved reach; a register or a create
\* with an identifier in use answers an error and adds no row; no update
\* leaves two officials with one email.
C8_UniqueIdentifiers ==
    /\ \A i, j \in DOMAIN erca_officials :
           i # j => /\ erca_officials[i].employee_id # erca_officials[j].employee_id
                    /\ erca_officials[i].email # erca_officials[j].email
    /\ \A body \in RegisterInputs :
           LET out == RegisterHandler(DB, body) IN
           UniqueViolation(erca_officials, body.employee_id, body.email) =>
               /\ out.resp.status # 200
               /\ out.officials = erca_officials
    /\ \A token \in BearerInputs, officialData \in CreateInputs :
           LET out == CreateHandler(DB, token, officialData) IN
           UniqueViolation(erca_officials, officialData.employee_id,
                           officialData.email) =>
               /\ out.resp.status # 200
               /\ out.officials = erca_officials
               /\ ~Unauthorized(out.resp) => out.resp.error = "unique_constraint"
    /\ \A token \in BearerInputs, official_id \in UpdateTargets,
          updates \in UpdateInputs :
           LET after == UpdateHandler(DB, token, official_id, updates).officials IN
           \A i, j \in DOMAIN after : i # j => after[i].email # after[j].email
    /\ \A request \in {"register", "create"} :
           inflight[request].resp.status = 200 =>
               Cardinality({ i \in DOMAIN erca_officials :
                               erca_officials[i].employee_id = Bob.employee_id }) = 1

\* the register in flight found no row, the create in flight inserted its
\* row, and the store refused the register's INSERT
C8_RegisterLostTheRace ==
    /\ inflight.register.resp.error = "unique_constraint"
    /\ inflight.create.resp.status = 200

\* C9: an active super admin whose capability flags are all 0, holding a
\* valid session, passes the authorization of both listings, of create, of
\* update and of the audit-log query, and each succeeds.
C9_SuperAdminOverride ==
    \A s \in erca_sessions :
        LET token == s.session_token IN
        ( /\ Owner(s).is_super_admin = 1
          /\ Owner(s).is_active = 1
          /\ \A flag \in CapabilityFlags : Owner(s)[flag] = 0
          /\ Valid(ValidateHandler(DB, token).resp) )
        => /\ AdminOfficialsHandler(DB, token).resp.status = 200
           /\ OfficialsHandler(DB, token).resp.status = 200
           /\ \A limit \in LimitInputs :
                  AuditLogsHandler(DB, token, limit).resp.status = 200
           /\ \A officialData \in CreateInputs :
                  LET out == CreateHandler(DB, token, officialData) IN
                  /\ ~Unauthorized(out.resp)
                  /\ ~UniqueViolation(erca_officials, officialData.employee_id,
                                      officialData.email) => out.resp.status = 200
           /\ \A official_id \in UpdateTargets, updates \in UpdateInputs :
                  LET out == UpdateHandler(DB, token, official_id, updates) IN
                  /\ ~Unauthorized(out.resp)
                  /\ ~UpdateUniqueViolation(erca_officials, official_id, updates)
                         => out.resp.status = 200

\* a super admin with no capability flag holds a valid session and creates
C9_FlaglessSuperAdmin ==
    \E s \in erca_sessions :
        /\ Owner(s).is_super_admin = 1
        /\ \A flag \in CapabilityFlags : Owner(s)[flag] = 0
        /\ Valid(ValidateHandler(DB, s.session_token).resp)
        /\ CreateHandler(DB, s.session_token, OfficialData(Bob, "")).resp.status = 200
        /\ AuditLogsHandler(DB, s.session_token, 1).resp.status = 200

\* the tables with the can_manage_officials flag of official id set or cleared
WithManageFlag(id, value) ==
    Out([erca_officials EXCEPT ![id].can_manage_officials = value],
        erca_sessions, erca_audit_logs, NoResponse)

\* what the flag decides, under either value: list, create and update of
\* /api/erca/admin/officials are authorized iff it is set
ManageFlagDecides(s, db) ==
    LET token == s.session_token
        flag == db.officials[s.official_id].can_manage_officials # 0
    IN  /\ ~Unauthorized(AdminOfficialsHandler(db, token).resp) <=> flag
        /\ \A officialData \in CreateInputs :
               ~Unauthorized(CreateHandler(db, token, officialData).resp) <=> flag
        /\ \A official_id \in UpdateTargets, updates \in UpdateInputs :
               ~Unauthorized(UpdateHandler(db, token, official_id, updates).resp)
                   <=> flag

\* the checks on other capabilities answer alike on two sets of tables
OtherChecksAgree(s, db1, db2) ==
    LET token == s.session_token IN
    /\ ValidateHandler(db1, token).resp = ValidateHandler(db2, token).resp
    /\ \A limit \in LimitInputs :
           AuditLogsHandler(db1, token, limit).resp.status
               = AuditLogsHandler(db2, token, limit).resp.status
    /\ \A credentials \in ChangePasswordInputs :
           ChangePasswordHandler(db1, token, credentials[1], credentials[2],
                                 "secret-two").resp.status
               = ChangePasswordHandler(db2, token, credentials[1], credentials[2],
                                       "secret-two").resp.status

\* the rows of a listing are all the officials, in the order of their names
ListedByName(list) ==
    /\ Len(list) = Len(erca_officials)
    /\ { list[k] : k \in DOMAIN list } = DOMAIN erca_officials
    /\ \A k \in 1..(Len(list) - 1) :
           Collate(erca_officials[list[k]].full_name)
               <= Collate(erca_officials[list[k + 1]].full_name)

NonSuperAdminSession(s) ==
    /\ Owner(s).is_super_admin = 0
    /\ Owner(s).is_active = 1
    /\ Valid(ValidateHandler(DB, s.session_token).resp)

\* C10, as the code has it: for an active official O who is no super admin
\* and holds a valid session, list, create and update of
\* /api/erca/admin/officials are authorized iff O's can_manage_officials is
\* set, with the flag set and with it cleared; the flag changes no other
\* check; that listing gives all officials by name; GET /api/erca/officials
\* turns O away whatever the flag.
C10_ManageOfficialsOnAdminRoutes ==
    \A s \in erca_sessions :
        NonSuperAdminSession(s) =>
            /\ ManageFlagDecides(s, DB)
            /\ ManageFlagDecides(s, WithManageFlag(s.official_id, 1))
            /\ ManageFlagDecides(s, WithManageFlag(s.official_id, 0))
            /\ OtherChecksAgree(s, WithManageFlag(s.official_id, 1),
                                WithManageFlag(s.official_id, 0))
            /\ Owner(s).can_manage_officials # 0 =>
                   ListedByName(AdminOfficialsHandler(DB, s.session_token).resp.list)
            /\ Unauthorized(OfficialsHandler(WithManageFlag(s.official_id, 1),
                                             s.session_token).resp)
            /\ Unauthorized(OfficialsHandler(WithManageFlag(s.official_id, 0),
                                             s.session_token).resp)

\* an official with can_manage_officials and no super-admin flag lists the
\* officials at /api/erca/admin/officials and is turned away at
\* /api/erca/officials
C10_ManagerListsOnAdminRoute ==
    \E s \in erca_sessions :
        /\ NonSuperAdminSession(s)
        /\ Owner(s).can_manage_officials = 1
        /\ AdminOfficialsHandler(DB, s.session_token).resp.status = 200
        /\ OfficialsHandler(DB, s.session_token).resp.status = 403

\* C10, as stated: the same on every route that lists the officials, each
\* listing in the order of the names.
C10_ManageOfficialsOnEveryListing ==
    \A s \in erca_sessions :
        NonSuperAdminSession(s) =>
            /\ ManageFlagDecides(s, DB)
            /\ ~Unauthorized(OfficialsHandler(DB, s.session_token).resp)
                   <=> (Owner(s).can_manage_officials # 0)
            /\ Owner(s).can_manage_officials # 0 =>
                   /\ ListedByName(AdminOfficialsHandler(DB, s.session_token).resp.list)
                   /\ ListedByName(OfficialsHandler(DB, s.session_token).resp.list)

\* an active official who is no super admin and holds no can_manage_officials
Unprivileged(officials, id) ==
    /\ officials[id].is_super_admin = 0
    /\ officials[id].can_manage_officials = 0
    /\ officials[id].is_active = 1
    /\ officials[id].account_locked = 0

\* a handler's outcome leaves the three tables as db has them
TablesUnchanged(db, out) ==
    /\ out.officials = db.officials
    /\ out.sessions = db.sessions
    /\ out.audit = db.audit

\* with this token on these tables both listings, create and update answer
\* Unauthorized, and create and update leave the tables as they were
ManagementRefused(db, token) ==
    /\ Unauthorized(AdminOfficialsHandler(db, token).resp)
    /\ Unauthorized(OfficialsHandler(db, token).resp)
    /\ \A officialData \in CreateInputs :
           LET out == CreateHandler(db, token, officialData) IN
           Unauthorized(out.resp) /\ out.resp.status = 403 /\ TablesUnchanged(db, out)
    /\ \A official_id \in UpdateTargets, updates \in UpdateInputs :
           LET out == UpdateHandler(db, token, official_id, updates) IN
           Unauthorized(out.resp) /\ out.resp.status = 403 /\ TablesUnchanged(db, out)

\* C11: an official created without can_manage_officials and without
\* is_super_admin logs in with the stored secret (the login answers 200 with
\* a token unless the generated token is already stored); with the token of
\* that login and with every token the official holds, list, create and
\* update answer Unauthorized; every create or update that is refused, for
\* the flags or for the session, leaves officials, sessions and log unchanged.
C11_UnprivilegedIsRefused ==
    /\ \A i \in DOMAIN erca_officials, credentials \in LoginInputs, rnd \in 1..NumRand :
           LET login == LoginHandler(DB, credentials[1], credentials[2], rnd) IN
           ( /\ Unprivileged(erca_officials, i)
             /\ CredentialRow(erca_officials, credentials[1],
                              hashPassword(credentials[2])) = i
             /\ SessionsByToken(erca_sessions, generateToken(rnd)) = {} )
           => /\ login.resp.status = 200
              /\ login.resp.official_id = i
              /\ Valid(ValidateHandler(login, login.resp.token).resp)
              /\ ManagementRefused(login, login.resp.token)
    /\ \A s \in erca_sessions :
           Unprivileged(erca_officials, s.official_id) =>
               ManagementRefused(DB, s.session_token)
    /\ \A token \in BearerInputs :
           /\ \A officialData \in CreateInputs :
                  LET out == CreateHandler(DB, token, officialData) IN
                  Unauthorized(out.resp) => TablesUnchanged(DB, out)
           /\ \A official_id \in UpdateTargets, updates \in UpdateInputs :
                  LET out == UpdateHandler(DB, token, official_id, updates) IN
                  Unauthorized(out.resp) => TablesUnchanged(DB, out)

\* an official that POST /api/erca/admin/officials created logs in with the
\* default secret and is turned away by create, while the creator is not
C11_CreatedOfficialRefused ==
    \E i \in DOMAIN erca_officials, s \in erca_sessions :
        LET login == LoginHandler(DB, erca_officials[i].email, DefaultPassword, 1) IN
        /\ erca_officials[i].created_by = s.official_id
        /\ Unprivileged(erca_officials, i)
        /\ login.resp.status = 200
        /\ Unauthorized(CreateHandler(login, login.resp.token,
                                      OfficialData(SameCode, "")).resp)
        /\ ~Unauthorized(CreateHandler(DB, s.session_token,
                                       OfficialData(SameCode, "")).resp)

\* the token is that of a stored session validate finds valid, of a super admin
BackedBySuperAdmin(db, token) ==
    /\ token # NoToken
    /\ Valid(ValidateHandler(db, token).resp)
    /\ \E s \in SessionsByToken(db.sessions, token) :
           db.officials[s.official_id].is_super_admin # 0

\* C12: a register request adds an official only when its created_by_token
\* is the token of a valid session of a super admin; a request without a
\* token adds no official holding is_super_admin or can_manage_officials.
C12_RegisterRequiresSuperAdmin ==
    \A body \in RegisterInputs :
        LET out == RegisterHandler(DB, body) IN
        /\ out.officials # erca_officials =>
               BackedBySuperAdmin(DB, body.created_by_token)
        /\ body.created_by_token = NoToken =>
               \A i \in (DOMAIN out.officials) \ (DOMAIN erca_officials) :
                   /\ out.officials[i].is_super_admin = 0
                   /\ out.officials[i].can_manage_officials = 0

\* a super admin that a register request without a token added holds a
\* session and reads the audit log
C12_SelfMadeSuperAdmin ==
    \E s \in erca_sessions :
        /\ s.official_id \notin DOMAIN SeedOfficials
        /\ Owner(s).is_super_admin = 1
        /\ Owner(s).created_by = 0
        /\ AuditLogsHandler(DB, s.session_token, DefaultLimit).resp.status = 200

SuperAdmins(officials) ==
    { i \in DOMAIN officials : officials[i].is_super_admin = 1 }

\* C13: of the setup requests that carry the setup key, served whole or
\* interleaved, at most one answers success; a setup answers an error
\* whenever a super admin is stored; the officials never hold more than one
\* super admin that setup wrote.
C13_SetupOnlyOnce ==
    /\ Cardinality({ request \in SetupRequests :
                       inflight[request].resp.status = 200 }) <= 1
    /\ Cardinality(SuperAdmins(erca_officials)) <= 1
    /\ \A body \in SetupInputs :
           SetupExisting(erca_officials) =>
               /\ SetupHandler(DB, body).resp.status # 200
               /\ SetupHandler(DB, body).officials = erca_officials

\* both setup requests in flight answered success, each with its own row
C13_TwoSuperAdmins ==
    /\ \A request \in SetupRequests : inflight[request].resp.status = 200
    /\ inflight.setup_a.resp.entity_id # inflight.setup_b.resp.entity_id
    /\ Cardinality(SuperAdmins(erca_officials)) = 2

\* C14: for every token, stored or not, and for no token: logout answers
\* success, a second logout of the same token answers success and leaves the
\* tables as the first left them; a logout of a token that is not stored
\* changes nothing; after the logout validate of the token is not valid, and
\* every other session row is as it was.
C14_LogoutIdempotent ==
    \A token \in TokenInputs :
        LET first == LogoutHandler(DB, token)
            second == LogoutHandler(first, token)
        IN  /\ first.resp.status = 200
            /\ second.resp.status = 200
            /\ TablesUnchanged(first, second)
            /\ SessionsByToken(erca_sessions, token) = {} => TablesUnchanged(DB, first)
            /\ ~Valid(ValidateHandler(first, token).resp)
            /\ first.officials = erca_officials
            /\ first.sessions = { s \in erca_sessions : s.session_token # token }
            /\ \A other \in BearerInputs \ {token} :
                   ValidateHandler(first, other).resp = ValidateHandler(DB, other).resp

\* an official holds two valid sessions and logs out of one: that token is
\* no longer valid, the other still is
C14_OtherSessionSurvives ==
    \E s1, s2 \in erca_sessions :
        LET first == LogoutHandler(DB, s1.session_token) IN
        /\ s1 # s2
        /\ s1.official_id = s2.official_id
        /\ Valid(ValidateHandler(DB, s1.session_token).resp)
        /\ ~Valid(ValidateHandler(first, s1.session_token).resp)
        /\ Valid(ValidateHandler(first, s2.session_token).resp)
        /\ LogoutHandler(first, s1.session_token).resp.status = 200

NewPassword == "secret-two"

\* C15: a change of password sent with a valid session and a current secret
\* that is not the stored one answers 401 "Current password is incorrect"
\* and leaves officials (the stored secret), sessions and log unchanged, as
\* does every refused change; after a change that succeeds, with a new
\* secret other than the current one, a login with the new secret finds the
\* official (200 when the official is active and the token is not stored),
\* and a login with the old secret answers 401.
C15_ChangePasswordVerifies ==
    \A token \in BearerInputs, credentials \in ChangePasswordInputs :
        LET employee_id == credentials[1]
            current == credentials[2]
            out == ChangePasswordHandler(DB, token, employee_id, current, NewPassword)
            id == out.resp.entity_id
        IN  /\ ( /\ AdminSessionOfficial(DB, token) # 0
                 /\ \A i \in DOMAIN erca_officials :
                        erca_officials[i].employee_id = employee_id =>
                            erca_officials[i].password_hash # hashPassword(current) )
               => /\ out.resp.status = 401
                  /\ out.resp.error = "current_password"
            /\ out.resp.status # 200 => TablesUnchanged(DB, out)
            /\ (out.resp.status = 200 /\ current # NewPassword) =>
                   /\ erca_officials[id].employee_id = employee_id
                   /\ erca_officials[id].password_hash = hashPassword(current)
                   /\ out.officials[id].password_hash = hashPassword(NewPassword)
                   /\ \A rnd \in 1..NumRand :
                          LET new == LoginHandler(out, employee_id, NewPassword, rnd)
                              old == LoginHandler(out, employee_id, current, rnd)
                          IN  /\ new.resp.official_id = id
                              /\ ( /\ erca_officials[id].is_active = 1
                                    /\ SessionsByToken(out.sessions, generateToken(rnd)) = {} )
                                 => new.resp.status = 200
                              /\ old.resp.status = 401
                              /\ old.sessions = out.sessions

\* with one valid session a change with a wrong current secret is refused
\* and a change with the stored one succeeds
C15_RefusedThenChanged ==
    \E s \in erca_sessions, wrong, right \in ChangePasswordInputs :
        LET token == s.session_token
            refused == ChangePasswordHandler(DB, token, wrong[1], wrong[2], NewPassword)
            changed == ChangePasswordHandler(DB, token, right[1], right[2], NewPassword)
        IN  /\ \E i \in DOMAIN erca_officials : erca_officials[i].employee_id = wrong[1]
            /\ refused.resp.error = "current_password"
            /\ changed.resp.status = 200
            /\ LoginHandler(changed, right[1], NewPassword, 1).resp.status = 200
            /\ LoginHandler(changed, right[1], right[2], 1).resp.status = 401

\* C16: no two session rows share a token, in every state that logins
\* served whole or statement by statement reach; a login that answers
\* success issues a token no stored row holds and adds exactly the row of
\* that token; every session stored before it is still stored, unchanged,
\* and validate answers for its token as before.
C16_LoginsAreIndependent ==
    /\ \A s1, s2 \in erca_sessions :
           s1.session_token = s2.session_token => s1 = s2
    /\ \A credentials \in LoginInputs, rnd \in 1..NumRand :
           LET out == LoginHandler(DB, credentials[1], credentials[2], rnd) IN
           out.resp.status = 200 =>
               /\ \A s \in erca_sessions : s.session_token # out.resp.token
               /\ erca_sessions \subseteq out.sessions
               /\ \E new \in out.sessions :
                      /\ out.sessions = erca_sessions \cup {new}
                      /\ new.session_token = out.resp.token
                      /\ new.official_id = out.resp.official_id
               /\ \A s \in erca_sessions :
                      ValidateHandler(out, s.session_token).resp
                          = ValidateHandler(DB, s.session_token).resp
    /\ LET l == inflight.login IN
       l.resp.status = 200 =>
           \A s \in SessionsByToken(erca_sessions, l.token) : s.official_id = l.official

\* the login in flight and a login served whole both succeeded for one
\* official, whose two sessions are valid, and a third login that draws a
\* stored token is refused
C16_TwoSessionsOfOneOfficial ==
    \E s1, s2 \in erca_sessions :
        /\ s1 # s2
        /\ s1.official_id = s2.official_id
        /\ inflight.login.resp.status = 200
        /\ s1.session_token = inflight.login.token
        /\ Valid(ValidateHandler(DB, s1.session_token).resp)
        /\ Valid(ValidateHandler(DB, s2.session_token).resp)
        /\ LoginHandler(DB, "E100", "secret-one", 1).resp.error = "unique_session_token"

\* a login on these tables with this secret finds the official, and
\* answers success whenever the token it draws is not stored
Authenticates(db, employee_id, password, id) ==
    \A rnd \in 1..NumRand :
        LET login == LoginHandler(db, employee_id, password, rnd) IN
        /\ login.resp.official_id = id
        /\ ~TokenStored(db.sessions, generateToken(rnd)) => login.resp.status = 200

\* C17: a creation without a secret reports a default secret, and a login
\* of the new official with the reported secret succeeds; a creation with a
\* secret reports no default secret, and a login with the supplied secret
\* succeeds.
C17_ReportedSecretAuthenticates ==
    \A token \in BearerInputs, officialData \in CreateInputs :
        LET out == CreateHandler(DB, token, officialData)
            id == out.resp.entity_id
        IN  out.resp.status = 200 =>
                IF officialData.password = ""
                THEN /\ out.resp.default_password # ""
                     /\ Authenticates(out, officialData.employee_id,
                                       out.resp.default_password, id)
                ELSE /\ out.resp.default_password = ""
                     /\ Authenticates(out, officialData.employee_id,
                                       officialData.password, id)

\* a creation with a secret supplied reports the default secret, which a
\* login of the new official does not accept, while the supplied one is
C17_ReportedSecretRefused ==
    \E s \in erca_sessions, officialData \in CreateInputs :
        LET out == CreateHandler(DB, s.session_token, officialData) IN
        /\ officialData.password # ""
        /\ out.resp.status = 200
        /\ out.resp.default_password = DefaultPassword
        /\ \A rnd \in 1..NumRand :
               LoginHandler(out, officialData.employee_id, out.resp.default_password,
                            rnd).resp.status = 401
        /\ Authenticates(out, officialData.employee_id, officialData.password,
                         out.resp.entity_id)

\* the rows of an answer are log entries, each at most once, the latest
\* first, and no entry left out is later than one that is given
MostRecentFirst(audit, list) ==
    /\ \A k \in DOMAIN list : list[k] \in DOMAIN audit
    /\ \A k, m \in DOMAIN list : k # m => list[k] # list[m]
    /\ \A k, m \in DOMAIN list :
           k < m => ParseDate(audit[list[k]].created_at)
                        >= ParseDate(audit[list[m]].created_at)
    /\ \A k \in DOMAIN list, i \in DOMAIN audit :
           i \notin { list[m] : m \in DOMAIN list } =>
               ParseDate(audit[list[k]].created_at) >= ParseDate(audit[i].created_at)

\* C18: the audit-log query answers with entries only when the token is
\* that of a valid session of a super admin; the entries are the most
\* recent ones, latest first, as many as the log holds and never more than
\* the limit (100 for a request without one); the query leaves the tables
\* as they were.
C18_AuditLogQuery ==
    \A token \in BearerInputs, query \in LimitQueries :
        LET out == AuditLogsHandler(DB, token, LimitOf(query))
            list == out.resp.list
        IN  /\ TablesUnchanged(DB, out)
            /\ out.resp.status = 200 =>
                   /\ BackedBySuperAdmin(DB, token)
                   /\ MostRecentFirst(erca_audit_logs, list)
                   /\ Len(list) <= LimitOf(query)
                   /\ query = "" => Len(list) <= DefaultLimit
                   /\ Len(list) < LimitOf(query) => Len(list) = Len(erca_audit_logs)

\* a super admin's token that validate finds expired is answered the log
C18_ExpiredSessionReadsLog ==
    \E s \in erca_sessions :
        /\ Owner(s).is_super_admin = 1
        /\ ValidateHandler(DB, s.session_token).resp.error = "expired"
        /\ AuditLogsHandler(DB, s.session_token, DefaultLimit).resp.status = 200
        /\ Len(AuditLogsHandler(DB, s.session_token, DefaultLimit).resp.list) > 0

\* the outcomes of one further request on these tables
FurtherRequests(db) ==
    { LoginHandler(db, credentials[1], credentials[2], rnd) :
        credentials \in LoginInputs, rnd \in 1..NumRand }
    \cup { ValidateHandler(db, token) : token \in TokenInputs }
    \cup { LogoutHandler(db, token) : token \in TokenInputs }
    \cup { RegisterHandler(db, body) : body \in RegisterInputs }
    \cup { UpdateHandler(db, token, official_id, updates) :
             token \in BearerInputs, official_id \in UpdateTargets,
             updates \in UpdateInputs }
    \cup { ChangePasswordHandler(db, token, credentials[1], credentials[2],
                                 NewPassword) :
             token \in BearerInputs, credentials \in ChangePasswordInputs }

\* the outcomes that end the session of this token: a logout, a change of
\* the owner's password, a validate that finds the session expired
Ended(db, token) ==
    { out \in { LogoutHandler(db, token) }
              \cup { ChangePasswordHandler(db, bearer, credentials[1],
                                           credentials[2], NewPassword) :
                       bearer \in BearerInputs,
                       credentials \in ChangePasswordInputs }
              \cup { v \in { ValidateHandler(db, token) } : v.resp.error = "expired" } :
        ~TokenStored(out.sessions, token) }

\* C19: Expired and Revoked are terminal: for every stored session, once a
\* logout, a change of password or a validate that found it expired has
\* removed it, validate of its token is not valid, at once and after every
\* further request.
C19_EndedStaysEnded ==
    \A s \in erca_sessions :
        \A ended \in Ended(DB, s.session_token) :
            /\ ~Valid(ValidateHandler(ended, s.session_token).resp)
            /\ \A further \in FurtherRequests(ended) :
                   ~Valid(ValidateHandler(further, s.session_token).resp)

\* a login served after the logout, in the same tick of the clock, draws
\* the token of the session that was logged out, and validate finds it valid
C19_TokenIssuedAgain ==
    \E s \in erca_sessions, credentials \in LoginInputs :
        LET ended == LogoutHandler(DB, s.session_token)
            again == LoginHandler(ended, credentials[1], credentials[2], 1)
        IN  /\ Valid(ValidateHandler(DB, s.session_token).resp)
            /\ ~Valid(ValidateHandler(ended, s.session_token).resp)
            /\ again.resp.status = 200
            /\ again.resp.token = s.session_token
            /\ Valid(ValidateHandler(again, s.session_token).resp)

\* the operation reports success and leaves the officials and the sessions
\* that it leaves when its audit write succeeds
SameEffect(done, failed) ==
    done.resp.status = 200 =>
        /\ failed.resp.status = 200
        /\ failed.officials = done.officials
        /\ failed.sessions = done.sessions

\* C20: a login, create, update or change of password whose audit write
\* fails reports success and has its full effect on officials and sessions;
\* a change of password whose audit write fails leaves no session of the
\* official whose secret was changed.
C20_AuditFailureDoesNotBlock ==
    /\ \A credentials \in LoginInputs, rnd \in 1..NumRand :
           SameEffect(LoginHandler(DB, credentials[1], credentials[2], rnd),
                      LoginAuditFailed(DB, credentials[1], credentials[2], rnd))
    /\ \A token \in BearerInputs, officialData \in CreateInputs :
           SameEffect(CreateHandler(DB, token, officialData),
                      CreateAuditFailed(DB, token, officialData))
    /\ \A token \in BearerInputs, official_id \in UpdateTargets,
          updates \in UpdateInputs :
           SameEffect(UpdateHandler(DB, token, official_id, updates),
                      UpdateAuditFailed(DB, token, official_id, updates))
    /\ \A token \in BearerInputs, credentials \in ChangePasswordInputs :
           LET done == ChangePasswordHandler(DB, token, credentials[1],
                                             credentials[2], NewPassword)
               failed == ChangePasswordAuditFailed(DB, token, credentials[1],
                                                   credentials[2], NewPassword)
           IN  /\ SameEffect(done, failed)
               /\ done.resp.status = 200 =>
                      \A s \in failed.sessions : s.official_id # done.resp.entity_id

\* a change of password stops at its audit write: it answers 500, the stored
\* secret is the new one, and the session that carried the request, issued
\* for the old secret, is still valid
C20_PasswordChangedSessionsKept ==
    \E s \in erca_sessions, credentials \in ChangePasswordInputs :
        LET failed == ChangePasswordAuditFailed(DB, s.session_token, credentials[1],
                                                credentials[2], NewPassword)
        IN  /\ Owner(s).employee_id = credentials[1]
            /\ Owner(s).password_hash = hashPassword(credentials[2])
            /\ credentials[2] # NewPassword
            /\ failed.resp.status = 500
            /\ failed.officials[s.official_id].password_hash = hashPassword(NewPassword)
            /\ Valid(ValidateHandler(failed, s.session_token).resp)
            /\ failed.audit = erca_audit_logs

\* the caller of an admin route, as the route's session check resolves it,
\* may manage officials
Authorized(db, token) ==
    MayManageOfficials(db.officials, AdminSessionOfficial(db, token))

\* an id that is the id of no official
UnknownId == Len(erca_officials) + 1

\* C21: an update sent by an authorized caller for an id that names no
\* official answers 404, leaves every official as it was and appends no
\* entry to the audit log.
C21_UnknownIdNotFound ==
    \A token \in BearerInputs, updates \in UpdateInputs :
        LET out == UpdateHandler(DB, token, UnknownId, updates) IN
        Authorized(DB, token) =>
            /\ out.resp.status = 404
            /\ out.officials = erca_officials
            /\ out.audit = erca_audit_logs

\* an authorized update of an id that names no official answers 200 and
\* leaves an update_user entry for that id in the log
C21_UnknownIdAudited ==
    \E token \in BearerInputs, updates \in UpdateInputs :
        LET out == UpdateHandler(DB, token, UnknownId, updates) IN
        /\ Authorized(DB, token)
        /\ UnknownId \notin DOMAIN erca_officials
        /\ out.resp.status = 200
        /\ out.officials = erca_officials
        /\ AppendedOne(out.audit, "update_user", AdminSessionOfficial(DB, token))
        /\ out.audit[Len(out.audit)].entity_id = UnknownId

UpdatableFields ==
    { "full_name", "email", "phone", "rank_name", "department", "office_location",
      "is_active" }

\* C22: an authorized update that answers 200 for an official writes every
\* field present in the patch, also when the value is empty or 0, keeps
\* every absent field, sets updated_at to the current time and appends one
\* update_user entry whose details are the patch.
C22_PresentFieldsWritten ==
    \A token \in BearerInputs, updates \in UpdateInputs :
        \A official_id \in DOMAIN erca_officials :
            LET out == UpdateHandler(DB, token, official_id, updates)
                before == erca_officials[official_id]
                after == out.officials[official_id]
            IN  (Authorized(DB, token) /\ out.resp.status = 200) =>
                    /\ \A f \in UpdatableFields :
                           after[f] = IF f \in DOMAIN updates THEN updates[f]
                                      ELSE before[f]
                    /\ after.updated_at = datetimeNow
                    /\ AppendedOne(out.audit, "update_user",
                                   AdminSessionOfficial(DB, token))
                    /\ out.audit[Len(out.audit)].details = updates

\* an authorized update whose patch carries an empty full_name answers 200,
\* writes the email of the patch and leaves the name as it was
C22_EmptyFieldNotWritten ==
    \E token \in BearerInputs, updates \in UpdateInputs :
        \E official_id \in DOMAIN erca_officials :
            LET out == UpdateHandler(DB, token, official_id, updates)
                before == erca_officials[official_id]
                after == out.officials[official_id]
            IN  /\ Authorized(DB, token)
                /\ out.resp.status = 200
                /\ "full_name" \in DOMAIN updates
                /\ updates.full_name = ""
                /\ before.full_name # ""
                /\ after.full_name = before.full_name
                /\ after.email = updates.email
                /\ before.email # updates.email
                /\ out.audit[Len(out.audit)].details = updates

\* the officials a login id names, by employee code or by email
Named(officials, loginId) ==
    { i \in DOMAIN officials :
        officials[i].employee_id = loginId \/ officials[i].email = loginId }

Secrets == { credentials[2] : credentials \in LoginInputs }

\* C23: a login whose secret is the stored secret of no official the login
\* id names answers 401 and leaves officials (account_locked and the
\* failed-login counter with them), sessions and audit log as they were, and
\* so does the same login sent again; a login that follows with the stored
\* secret of an active official answers as it would have answered before the
\* failed logins: 200 with a session, unless the generated token is already
\* stored.
C23_FailedLoginsNeverLock ==
    \A credentials \in LoginInputs, rnd \in 1..NumRand :
        LET loginId == credentials[1]
            wrong == credentials[2]
            named == Named(erca_officials, loginId)
            first == LoginHandler(DB, loginId, wrong, rnd)
            second == LoginHandler(first, loginId, wrong, rnd)
        IN  ( /\ loginId # ""
              /\ \A i \in named : erca_officials[i].password_hash # hashPassword(wrong) )
            => /\ first.resp.status = 401
               /\ first.resp.error = "invalid_credentials"
               /\ second.resp = first.resp
               /\ TablesUnchanged(DB, first)
               /\ TablesUnchanged(DB, second)
               /\ \A i \in named :
                      /\ second.officials[i].account_locked = erca_officials[i].account_locked
                      /\ second.officials[i].failed_login_attempts =
                             erca_officials[i].failed_login_attempts
               /\ \A correct \in Secrets :
                      LET next == LoginHandler(second, loginId, correct, rnd) IN
                      /\ next.resp = LoginHandler(DB, loginId, correct, rnd).resp
                      /\ ( /\ \E i \in named :
                                 /\ erca_officials[i].password_hash = hashPassword(correct)
                                 /\ erca_officials[i].is_active = 1
                                 /\ erca_officials[i].account_locked = 0
                           /\ ~TokenStored(erca_sessions, generateToken(rnd)) )
                         => /\ next.resp.status = 200
                            /\ next.resp.official_id \in named
                            /\ SessionsByToken(next.sessions, next.resp.token) # {}

\* an official is refused twice with a wrong secret and then logs in with
\* the stored one
C23_RefusedTwiceThenLoggedIn ==
    \E credentials \in LoginInputs, correct \in Secrets, rnd \in 1..NumRand :
        LET loginId == credentials[1]
            wrong == credentials[2]
            first == LoginHandler(DB, loginId, wrong, rnd)
            second == LoginHandler(first, loginId, wrong, rnd)
            next == LoginHandler(second, loginId, correct, rnd)
        IN  /\ Named(erca_officials, loginId) # {}
            /\ wrong # correct
            /\ first.resp.status = 401
            /\ second.resp.status = 401
            /\ next.resp.status = 200
            /\ next.resp.official_id \in Named(erca_officials, loginId)
            /\ next.officials[next.resp.official_id].account_locked = 0

\* the sessions stored under other tokens than this one
OtherSessions(sessions, token) == { s \in sessions : s.session_token # token }

\* C24: validate of any token, stored or not, leaves every official, the
\* audit log and every session of another token as they were; the row of the
\* validated token is either removed, and then it had expired, or kept with
\* its owner and expiry and with last_activity set to the current time when
\* the answer is valid; a second validate at the same time leaves the tables
\* as the first left them and gives the same verdict, and for a valid token
\* the same answer.
C24_ValidateFrame ==
    \A token \in TokenInputs :
        LET out == ValidateHandler(DB, token)
            again == ValidateHandler(out, token)
        IN  /\ out.officials = erca_officials
            /\ out.audit = erca_audit_logs
            /\ OtherSessions(out.sessions, token) = OtherSessions(erca_sessions, token)
            /\ \A s \in SessionsByToken(erca_sessions, token) :
                   IF SessionsByToken(out.sessions, token) = {}
                   THEN ExpiredAtValidate(s.expires_at) /\ ~Valid(out.resp)
                   ELSE \A t \in SessionsByToken(out.sessions, token) :
                            /\ t.official_id = s.official_id
                            /\ t.expires_at = s.expires_at
                            /\ t.last_activity =
                                   IF Valid(out.resp) THEN datetimeNow ELSE s.last_activity
            /\ SessionsByToken(erca_sessions, token) = {} => out.sessions = erca_sessions
            /\ TablesUnchanged(out, again)
            /\ Valid(again.resp) <=> Valid(out.resp)
            /\ Valid(out.resp) => again.resp = out.resp

\* a valid token is validated some time after its login while another
\* session is stored: only its last_activity changes, and a second validate
\* answers the same
C24_TouchedAmongOthers ==
    \E s \in erca_sessions :
        LET out == ValidateHandler(DB, s.session_token)
            again == ValidateHandler(out, s.session_token)
        IN  /\ Valid(out.resp)
            /\ s.last_activity # datetimeNow
            /\ out.sessions # erca_sessions
            /\ OtherSessions(erca_sessions, s.session_token) # {}
            /\ again.resp = out.resp
            /\ again.sessions = out.sessions

\* the token is missing, unknown or, by the instant validate compares, expired
SessionFailure(db, token) ==
    \A s \in SessionsByToken(db.sessions, token) : ExpiredAtValidate(s.expires_at)

\* the token is stored, not expired, of an active owner who may not manage
\* officials
LacksCapability(db, token) ==
    /\ ~SessionFailure(db, token)
    /\ AdminSessionOfficial(db, token) # 0
    /\ ~Authorized(db, token)

\* C25: on create, update and the change of password a missing, unknown or
\* expired bearer token answers 401 and never 403; a valid session lacking
\* the capability answers 403; a wrong current secret answers 401; a
\* duplicate employee code or email answers 409 and never 500, on create and
\* on register; an update of an unknown id answers 404; a malformed
\* registration answers 400.
C25_FailureKinds ==
    \A token \in BearerInputs :
        /\ \A officialData \in CreateInputs :
               LET out == CreateHandler(DB, token, officialData) IN
               /\ SessionFailure(DB, token) => out.resp.status = 401
               /\ LacksCapability(DB, token) => out.resp.status = 403
               /\ ( /\ Authorized(DB, token)
                    /\ UniqueViolation(erca_officials, officialData.employee_id,
                                       officialData.email) )
                  => out.resp.status = 409
        /\ \A official_id \in UpdateTargets, updates \in UpdateInputs :
               LET out == UpdateHandler(DB, token, official_id, updates) IN
               /\ SessionFailure(DB, token) => out.resp.status = 401
               /\ LacksCapability(DB, token) => out.resp.status = 403
               /\ (Authorized(DB, token) /\ official_id \notin DOMAIN erca_officials)
                  => out.resp.status = 404
               /\ out.resp.status # 500
        /\ \A credentials \in ChangePasswordInputs :
               LET out == ChangePasswordHandler(DB, token, credentials[1],
                                                credentials[2], NewPassword)
               IN  /\ SessionFailure(DB, token) => out.resp.status = 401
                   /\ ( /\ AdminSessionOfficial(DB, token) # 0
                        /\ PasswordRow(erca_officials, credentials[1],
                                       hashPassword(credentials[2])) = 0 )
                      => out.resp.status = 401
        /\ \A body \in RegisterInputs :
               LET out == RegisterHandler(DB, body) IN
               /\ RegisterInvalid(body) # NoResponse => out.resp.status = 400
               /\ ( /\ RegisterInvalid(body) = NoResponse
                    /\ RegisterUnauthorized(DB, body) = NoResponse
                    /\ RegisterExisting(erca_officials, body) )
                  => out.resp.status = 409

\* a create sent with a token that is not stored answers 403, and a create
\* of an official whose employee code is taken, sent by an authorized
\* caller, answers 500
C25_MissingTokenForbidden ==
    \E token \in BearerInputs, officialData \in CreateInputs :
        /\ SessionsByToken(erca_sessions, AbsentToken) = {}
        /\ CreateHandler(DB, AbsentToken, officialData).resp.status = 403
        /\ Authorized(DB, token)
        /\ UniqueViolation(erca_officials, officialData.employee_id, officialData.email)
        /\ CreateHandler(DB, token, officialData).resp.status = 500

\* the instants at which a login may have written an expires_at by now
LoginInstants == 0..now

\* C26: for the expires_at a login writes at any instant up to now, the
\* test inside the query of the privileged routes agrees with the test of
\* validate: when the parsed instant lies before the current instant the
\* stored text is not greater than datetime('now'); and every stored
\* session that validate's test finds expired resolves to no official in
\* the session check of a privileged route.
C26_ExpiryTestsAgree ==
    /\ \A t \in LoginInstants :
           LET expires_at == toISOString(t + SessionTtl) IN
           ExpiredAtValidate(expires_at) => ~NotExpiredInQuery(expires_at)
    /\ \A s \in erca_sessions :
           ExpiredAtValidate(s.expires_at) =>
               /\ SessionOfficial(DB, s.session_token) = 0
               /\ AdminSessionOfficial(DB, s.session_token) = 0

\* a stored session that validate's test finds expired passes the query's
\* test, and its owner creates an official with it
C26_ExpiredTokenCreates ==
    \E s \in erca_sessions, officialData \in CreateInputs :
        /\ ExpiredAtValidate(s.expires_at)
        /\ NotExpiredInQuery(s.expires_at)
        /\ ValidateHandler(DB, s.session_token).resp.error = "expired"
        /\ AdminSessionOfficial(DB, s.session_token) = s.official_id
        /\ CreateHandler(DB, s.session_token, officialData).resp.status = 200

\* the officials whose stored secret a handler's outcome has changed
SecretChanged(db, out) ==
    { i \in DOMAIN db.officials : out.officials[i].password_hash # db.officials[i].password_hash }

\* C27: a change of password that answers 200 rewrites the password_hash of
\* no official but the one the bearer token's session resolves to, deletes
\* the sessions of that official and of no other, and the password_change
\* entry it appends names that official.
C27_OnlyOwnSecretChanged ==
    \A token \in BearerInputs, credentials \in ChangePasswordInputs :
        LET out == ChangePasswordHandler(DB, token, credentials[1], credentials[2],
                                         NewPassword)
            session == AdminSessionOfficial(DB, token)
        IN  out.resp.status = 200 =>
                /\ session # 0
                /\ out.resp.entity_id = session
                /\ SecretChanged(DB, out) \subseteq {session}
                /\ out.sessions = { s \in erca_sessions : s.official_id # session }
                /\ AppendedOne(out.audit, "password_change", session)

\* with the token of one official and the employee code and current secret
\* of another, the other's secret is rewritten; the log entry names the
\* token's owner, whose session is kept
C27_OthersSecretChanged ==
    \E s \in erca_sessions, credentials \in ChangePasswordInputs :
        LET out == ChangePasswordHandler(DB, s.session_token, credentials[1],
                                         credentials[2], NewPassword)
            other == out.resp.entity_id
        IN  /\ out.resp.status = 200
            /\ other # s.official_id
            /\ erca_officials[other].employee_id = credentials[1]
            /\ SecretChanged(DB, out) = {other}
            /\ out.officials[other].password_hash = hashPassword(NewPassword)
            /\ out.audit[Len(out.audit)].official_id = s.official_id
            /\ \E t \in out.sessions : t.session_token = s.session_token

Deactivate == [is_active |-> 0]

Reactivate == [is_active |-> 1]

\* C28: the owner of a stored session is deactivated through update, a
\* validate of the session's token is rejected because the owner is
\* inactive, and the owner is reactivated through update at the same time,
\* before the token's expiry: the token is then not valid at validate and
\* resolves to no official in the session check of the privileged routes.
C28_DeactivationIsLasting ==
    \A admin \in BearerInputs, s \in erca_sessions :
        LET off == UpdateHandler(DB, admin, s.official_id, Deactivate)
            rejected == ValidateHandler(off, s.session_token)
            on == UpdateHandler(rejected, admin, s.official_id, Reactivate)
        IN  ( /\ off.resp.status = 200
              /\ rejected.resp.error = "inactive"
              /\ on.resp.status = 200 )
            => /\ ~Valid(ValidateHandler(on, s.session_token).resp)
               /\ AdminSessionOfficial(on, s.session_token) = 0

\* a token rejected while its owner was inactive is valid again, and
\* resolves to its owner, once the owner is reactivated
C28_TokenValidAfterReactivation ==
    \E admin \in BearerInputs, s \in erca_sessions :
        LET off == UpdateHandler(DB, admin, s.official_id, Deactivate)
            rejected == ValidateHandler(off, s.session_token)
            on == UpdateHandler(rejected, admin, s.official_id, Reactivate)
        IN  /\ Valid(ValidateHandler(DB, s.session_token).resp)
            /\ off.resp.status = 200
            /\ off.officials[s.official_id].is_active = 0
            /\ rejected.resp.error = "inactive"
            /\ AdminSessionOfficial(off, s.session_token) = 0
            /\ SessionsByToken(rejected.sessions, s.session_token) # {}
            /\ on.resp.status = 200
            /\ Valid(ValidateHandler(on, s.session_token).resp)
            /\ AdminSessionOfficial(on, s.session_token) = s.official_id

\* a patch that names, next to a new name, the columns the route does not
\* write
EscalatingPatch ==
    [ full_name |-> "Mallory", employee_id |-> "ERCA001",
      password_hash |-> hashPassword(NewPassword),
      is_super_admin |-> 1, account_locked |-> 1, failed_login_attempts |-> 1,
      can_view_businesses |-> 0, can_view_transactions |-> 0, can_view_reports |-> 0,
      can_manage_officials |-> 1, can_audit_businesses |-> 1,
      can_issue_penalties |-> 1, created_by |-> 1 ]

PatchContents == UpdateInputs \cup {EscalatingPatch}

ProtectedColumns ==
    {"employee_id", "password_hash", "is_super_admin", "account_locked"}
    \cup CapabilityFlags

\* the same officials, and every one but the addressed one as it was
Unaddressed(before, after, official_id) ==
    /\ DOMAIN after = DOMAIN before
    /\ \A i \in DOMAIN before : i # official_id => after[i] = before[i]

\* the two rows differ in no column but the ones the update may write
OnlyUpdatableChanged(before, after) ==
    /\ DOMAIN after = DOMAIN before
    /\ \A f \in (DOMAIN before) \ (UpdatableFields \cup {"updated_at"}) :
           after[f] = before[f]
    /\ \A f \in ProtectedColumns : after[f] = before[f]

\* C29: for every token, every id and every patch, also one that names the
\* other columns, an update leaves the officials it does not address as
\* they were, adds and removes no official, and on the addressed official
\* changes no column other than full_name, email, phone, rank_name,
\* department, office_location, is_active and updated_at: employee code,
\* stored secret, is_super_admin, account_locked and the capability flags
\* are as before.
C29_UpdateFrame ==
    /\ ProtectedColumns \cap (UpdatableFields \cup {"updated_at"}) = {}
    /\ \A token \in BearerInputs, updates \in PatchContents :
           \A official_id \in (DOMAIN erca_officials) \cup {UnknownId} :
               LET out == UpdateHandler(DB, token, official_id, updates) IN
               /\ out.sessions = erca_sessions
               /\ Unaddressed(erca_officials, out.officials, official_id)
               /\ official_id \in DOMAIN erca_officials =>
                      OnlyUpdatableChanged(erca_officials[official_id],
                                           out.officials[official_id])

\* an authorized update whose patch names is_super_admin, the secret and
\* the flags next to a new name answers 200 and writes the name alone, while
\* another official is stored
C29_EscalatingPatchIgnored ==
    \E token \in BearerInputs, official_id \in DOMAIN erca_officials :
        LET out == UpdateHandler(DB, token, official_id, EscalatingPatch)
            before == erca_officials[official_id]
            after == out.officials[official_id]
        IN  /\ Authorized(DB, token)
            /\ AdminSessionOfficial(DB, token) # official_id
            /\ out.resp.status = 200
            /\ before.is_super_admin = 0
            /\ after.is_super_admin = 0
            /\ after.can_manage_officials = 0
            /\ before.full_name # EscalatingPatch.full_name
            /\ after.full_name = EscalatingPatch.full_name
            /\ after.password_hash = before.password_hash
            /\ out.audit[Len(out.audit)].details = EscalatingPatch

\* the officials that are super admin or hold can_manage_officials
Managers(officials) ==
    { i \in DOMAIN officials :
        officials[i].is_super_admin # 0 \/ officials[i].can_manage_officials # 0 }

\* the token is that of a stored session of a super admin or of a holder of
\* can_manage_officials
SentByManager(db, token) ==
    \E s \in SessionsByToken(db.sessions, token) :
        s.official_id \in Managers(db.officials)

\* the handler's outcome has no manager that db has not
NoNewManager(db, out) == Managers(out.officials) \subseteq Managers(db.officials)

\* C30: a register, create, update or change of password sent without a
\* token, or with a token that is not the token of a session of a super
\* admin or of a holder of can_manage_officials, and every login, validate
\* and logout, leaves the set of officials that are super admin or hold
\* can_manage_officials no larger than it was; every official a create adds
\* has is_super_admin = 0 and can_manage_officials = 0.
C30_NoEscalation ==
    /\ \A body \in RegisterInputs :
           ~SentByManager(DB, body.created_by_token) =>
               NoNewManager(DB, RegisterHandler(DB, body))
    /\ \A token \in BearerInputs :
           ~SentByManager(DB, token) =>
               /\ \A officialData \in CreateInputs :
                      NoNewManager(DB, CreateHandler(DB, token, officialData))
               /\ \A official_id \in UpdateTargets, updates \in PatchContents :
                      NoNewManager(DB, UpdateHandler(DB, token, official_id, updates))
               /\ \A credentials \in ChangePasswordInputs :
                      NoNewManager(DB, ChangePasswordHandler(DB, token, credentials[1],
                                                             credentials[2], NewPassword))
    /\ \A credentials \in LoginInputs, rnd \in 1..NumRand :
           NoNewManager(DB, LoginHandler(DB, credentials[1], credentials[2], rnd))
    /\ \A token \in TokenInputs :
           /\ NoNewManager(DB, ValidateHandler(DB, token))
           /\ NoNewManager(DB, LogoutHandler(DB, token))
    /\ \A token \in BearerInputs, officialData \in CreateInputs :
           LET out == CreateHandler(DB, token, officialData) IN
           \A i \in (DOMAIN out.officials) \ (DOMAIN erca_officials) :
               /\ out.officials[i].is_super_admin = 0
               /\ out.officials[i].can_manage_officials = 0

\* no login has ever succeeded and no session is stored, and the officials
\* hold a super admin that no migration seeded and no official created
C30_ManagerWithoutAnySession ==
    /\ erca_audit_logs = <<>>
    /\ erca_sessions = {}
    /\ \E i \in Managers(erca_officials) \ (DOMAIN SeedOfficials) :
           /\ erca_officials[i].is_super_admin = 1
           /\ erca_officials[i].created_by = 0
           /\ erca_officials[i].is_active = 1

====
